---- MODULE Spec2Model ----
(***************************************************************************)
(* The Vault: couple pairing by invite code and the daily-entry reveal     *)
(* protocol, as implemented by core/models.py and core/views.py.           *)
(*                                                                         *)
(* The database runs in autocommit mode (settings.py sets no               *)
(* ATOMIC_REQUESTS), so every ORM query is one atomic step and the         *)
(* handlers that read a row and later write it (join_vault, submit_entry)  *)
(* are sequences of steps that interleave with the steps of other          *)
(* requests.  A running request lives in a slot of req; the response of    *)
(* the request that finished last is in resp.                              *)
(***************************************************************************)
EXTENDS Integers, Sequences, FiniteSets, TLC

\* ---------------------------------------------------------------- bounds
MaxVaults == 2
LastDay == 2
LastYear == 2026
MaxEntries == 9
MaxSparkRequests == 2

Users == {"ann", "bob", "cat"}
Codes == {"k1", "k2"}
NoUser == "none"
NoCouple == 0
NoPrompt == 0
NoEntry == 0
NoDate == ""
NoScore == 9999

\* Prompt catalog: active_date is (year, day of year).  Two prompts share
\* day 1, the one created later having the earlier date; no prompt has day 2,
\* one prompt has day 3 and one a day later in the year.
Prompts ==
    { [id |-> 1, year |-> 2025, day |-> 1],
      [id |-> 2, year |-> 2024, day |-> 3],
      [id |-> 3, year |-> 2024, day |-> 1],
      [id |-> 4, year |-> 2024, day |-> 9] }

\* Text typed into the entry form: a sequence of characters.
InputTexts == { <<>>, <<" ">>, <<" ", "w", " ", " ", "w">> }

VARIABLES
    couples,        \* table Couple: row id |-> [user1, user2, invite_code,
                    \*   is_ended, ended_date, reactivation_requested_by]
    active_couple,  \* Profile.active_couple of each user (NoCouple = null)
    entries,        \* table Entry: row id |-> [user, prompt, couple, text_content,
                    \*   word_count, created_at (the year), sentiment_score (tenths)]
    today,          \* the current date: [year, day of year]
    req,            \* the requests in flight
    resp,           \* the response sent last
    session,        \* request.session of each user: category |-> spark_history_<category>
    preferences,    \* table SparkPreference: row id |-> [user, spark, is_archived]
    context,        \* the template context of the spark response sent last
    spark_requests, \* the number of spark requests served
    wrapped         \* the data of the wrapped page rendered last

vars == <<couples, active_couple, entries, today, req, resp,
          session, preferences, context, spark_requests, wrapped>>

\* The state of the spark pages and of the wrapped page.
page_vars == <<session, preferences, context, spark_requests, wrapped>>

\* Two requests can be in flight at a time.
Reqs == {1, 2}

\* Couple(user1=..., invite_code=...) with the field defaults.
NewCouple(user1, code) ==
    [user1 |-> user1, user2 |-> NoUser, invite_code |-> code,
     is_ended |-> FALSE, ended_date |-> NoDate,
     reactivation_requested_by |-> NoUser]

NoRow == NewCouple(NoUser, "")

Idle ==
    [op |-> "idle", user |-> NoUser, pc |-> "idle", cid |-> NoCouple,
     couple |-> NoRow, prompt |-> NoPrompt, text |-> <<>>]

NoResp == [op |-> "none", outcome |-> "none"]

\* ------------------------------------------------------- models.py: Spark
NoSpark == 0
NoVibe == ""

\* views keep history[-20:] of the ids shown and avoid history[-10:].
HistoryCap == 20
RecentWindow == 10

\* SparkCategory.choices.
valid_categories == {"date", "convo", "wyr", "game"}

\* The categories and vibes a request can name; "quiz" is no SparkCategory.
CategoryInputs == {"date", "convo", "quiz"}
VibeInputs == {NoVibe, "spicy"}

\* Spark catalog: one more date idea than a history holds, the last of them
\* spicy, and one conversation starter.
Sparks ==
    { [id |-> i, category |-> "date",
       vibe |-> IF i = HistoryCap + 1 THEN "spicy" ELSE "wildcard"] :
            i \in 1..(HistoryCap + 1) }
    \cup { [id |-> HistoryCap + 2, category |-> "convo", vibe |-> "wildcard"] }

\* The id of a Spark that staff deleted after it was shown.
DeletedSpark == 99

\* No wrapped page was rendered.
NoWrapped == [year |-> 0]

\* The context of a response that renders no card.
NoContext ==
    [user |-> NoUser, category |-> "", vibe |-> NoVibe, spark |-> NoSpark,
     is_archived |-> FALSE]

\* No spark request and no wrapped request was made yet.
NoSparks ==
    /\ session = [u \in Users |-> [c \in CategoryInputs |-> <<>>]]
    /\ preferences = <<>>
    /\ context = NoContext
    /\ spark_requests = 0
    /\ wrapped = NoWrapped

\* ------------------------------------------------------- models.py: Couple

includes_user(couple, user) ==
    user = couple.user1 \/ user = couple.user2

\* get_partner without the test of user2.
get_partner_no_elif(couple, user) ==
    IF user = couple.user1 THEN couple.user2 ELSE couple.user1

get_partner(couple, user) ==
    IF user = couple.user1 THEN couple.user2
    ELSE IF user = couple.user2 THEN couple.user1
    ELSE NoUser

\* cls.objects.get(invite_code=...): the row id, or NoCouple for DoesNotExist.
couple_by_code(code) ==
    IF \E c \in 1..Len(couples) : couples[c].invite_code = code
    THEN CHOOSE c \in 1..Len(couples) : couples[c].invite_code = code
    ELSE NoCouple

\* join_with_code without the test of user1 against the joining user.
join_with_code_error_no_self(user, cid) ==
    IF cid = NoCouple THEN "InvalidCode"
    ELSE IF couples[cid].user2 # NoUser THEN "AlreadyPaired"
    ELSE "ok"

\* join_with_code testing user1 before user2.
join_with_code_error_self_first(user, cid) ==
    IF cid = NoCouple THEN "InvalidCode"
    ELSE IF couples[cid].user1 = user THEN "SelfJoin"
    ELSE IF couples[cid].user2 # NoUser THEN "AlreadyPaired"
    ELSE "ok"

\* The checks of join_with_code on the row it fetched: the error, or "ok".
join_with_code_error(user, cid) ==
    IF cid = NoCouple THEN "InvalidCode"
    ELSE IF couples[cid].user2 # NoUser THEN "AlreadyPaired"
    ELSE IF couples[cid].user1 = user THEN "SelfJoin"
    ELSE "ok"

\* ------------------------------------------------------- models.py: Prompt

\* Prompt without Meta.ordering: rows come in primary-key order.
DateBefore_by_id(p, q) == p.id <= q.id

DateBefore(p, q) ==
    p.year < q.year \/ (p.year = q.year /\ p.day <= q.day)

\* get_todays_prompt filtering on the whole date of today.
get_todays_prompt_same_year(date) ==
    LET match == {p \in Prompts : p.day = date.day /\ p.year = date.year}
    IN  IF match = {} THEN NoPrompt
        ELSE (CHOOSE p \in match : \A q \in match : DateBefore(p, q)).id

\* filter(month/day of today).first() under Meta.ordering = ['active_date'].
get_todays_prompt(date) ==
    LET match == {p \in Prompts : p.day = date.day}
    IN  IF match = {} THEN NoPrompt
        ELSE (CHOOSE p \in match : \A q \in match : DateBefore(p, q)).id

\* The timezone names a caller can pass: views.daily_journal passes
\* getattr(couple, 'timezone', 'UTC').
Timezones == {"UTC", "Pacific/Kiritimati"}

\* get_todays_prompt as the views call it, with a timezone name.  The method
\* takes today from timezone.now().date(), the date of the server clock, which
\* runs in UTC (settings.TIME_ZONE = 'UTC', USE_TZ = True); it reads no
\* timezone.
get_todays_prompt_in(tz) == get_todays_prompt(today)

\* -------------------------------------------------------- models.py: Entry

IsSpace(ch) == ch = " "

RECURSIVE lstrip(_)
lstrip(s) ==
    IF s # <<>> /\ IsSpace(Head(s)) THEN lstrip(Tail(s)) ELSE s

RECURSIVE rstrip(_)
rstrip(s) ==
    IF s # <<>> /\ IsSpace(s[Len(s)]) THEN rstrip(SubSeq(s, 1, Len(s) - 1)) ELSE s

\* forms.CharField(strip=True).clean
strip(s) == rstrip(lstrip(s))

\* len(text.split()): the number of maximal runs of non-space characters.
split_len(s) ==
    Cardinality({i \in 1..Len(s) :
        /\ ~IsSpace(s[i])
        /\ (i = 1 \/ IsSpace(s[i - 1]))})

\* Entry.save counting the pieces of text.split(' ').
word_count_of_single_space(text) ==
    IF text # <<>> THEN Cardinality({i \in 1..Len(text) : IsSpace(text[i])}) + 1 ELSE 0

\* Entry.save: word_count is recomputed from text_content.
word_count_of(text) ==
    IF text # <<>> THEN split_len(text) ELSE 0

\* filter(user, prompt, couple).first() under Meta.ordering = ['-created_at'].
entry_for(user, prompt, cid) ==
    LET match == {e \in 1..Len(entries) :
                    /\ entries[e].user = user
                    /\ entries[e].prompt = prompt
                    /\ entries[e].couple = cid}
    IN  IF match = {} THEN NoEntry
        ELSE CHOOSE e \in match : \A f \in match : f <= e

get_user_entry_for_prompt(user, prompt, cid) ==
    entry_for(user, prompt, cid)

\* The partner lookup filtering on the user instead of the partner.
get_partner_entry_for_prompt_own(user, prompt, cid, couple) ==
    IF cid = NoCouple \/ ~includes_user(couple, user) THEN NoEntry
    ELSE IF get_partner(couple, user) = NoUser THEN NoEntry
    ELSE entry_for(user, prompt, cid)

\* couple is the caller's copy of row cid.
get_partner_entry_for_prompt(user, prompt, cid, couple) ==
    IF cid = NoCouple \/ ~includes_user(couple, user) THEN NoEntry
    ELSE IF get_partner(couple, user) = NoUser THEN NoEntry
    ELSE entry_for(get_partner(couple, user), prompt, cid)

\* The Entry table without the UniqueConstraint.
unique_user_prompt_couple_entry_off(user, prompt, cid) == TRUE

\* The UniqueConstraint on (user, prompt, couple): may this row be inserted?
unique_user_prompt_couple_entry(user, prompt, cid) ==
    ~\E e \in 1..Len(entries) :
        /\ entries[e].user = user
        /\ entries[e].prompt = prompt
        /\ entries[e].couple = cid

\* ------------------------------------------------------------ the requests

Init ==
    /\ couples = <<>>
    /\ active_couple = [u \in Users |-> NoCouple]
    /\ entries = <<>>
    /\ today = [year |-> 2025, day |-> 1]
    /\ req = [r \in Reqs |-> Idle]
    /\ resp = NoResp
    /\ NoSparks

\* A new request takes the first free slot.
FirstIdle(r) ==
    /\ req[r].pc = "idle"
    /\ \A q \in 1..(r - 1) : req[q].pc # "idle"

Reply(op, outcome) == [op |-> op, outcome |-> outcome]

Start(r, op, user, pc) ==
    [Idle EXCEPT !.op = op, !.user = user, !.pc = pc]

\* The row the view gets from request.user.profile.active_couple.
active_row(user) ==
    IF active_couple[user] = NoCouple \/ active_couple[user] > Len(couples)
    THEN NoRow
    ELSE couples[active_couple[user]]

\* create_vault on a table without the unique index on invite_code.
create_vault_no_unique(r, user, code) ==
    /\ FirstIdle(r)
    /\ Len(couples) < MaxVaults
    /\ couples' = Append(couples, NewCouple(user, code))
    /\ req' = [req EXCEPT ![r] =
        [Start(r, "create_vault", user, "profile") EXCEPT !.cid = Len(couples) + 1]]
    /\ UNCHANGED <<page_vars, active_couple, entries, today, resp>>

\* views.create_vault, Couple.objects.create(user1=request.user): Couple.save
\* draws the invite code; the unique index on invite_code rejects a collision.
create_vault(r, user, code) ==
    /\ FirstIdle(r)
    /\ Len(couples) < MaxVaults
    /\ IF \E c \in 1..Len(couples) : couples[c].invite_code = code
       THEN /\ resp' = Reply("create_vault", "ServerError")
            /\ UNCHANGED <<page_vars, couples, req>>
       ELSE /\ couples' = Append(couples, NewCouple(user, code))
            /\ req' = [req EXCEPT ![r] =
                [Start(r, "create_vault", user, "profile") EXCEPT
                    !.cid = Len(couples) + 1]]
            /\ UNCHANGED resp
    /\ UNCHANGED <<page_vars, active_couple, entries, today>>

\* views.join_vault up to the end of the checks of Couple.join_with_code.
join_vault(r, user, code) ==
    /\ FirstIdle(r)
    /\ LET cid == couple_by_code(code)
           err == join_with_code_error(user, cid)
       IN  IF code = ""
           THEN /\ resp' = Reply("join_vault", "ValidationError")
                /\ UNCHANGED req
           ELSE IF err # "ok"
           THEN /\ resp' = Reply("join_vault", err)
                /\ UNCHANGED req
           ELSE /\ req' = [req EXCEPT ![r] =
                    [Start(r, "join_vault", user, "save") EXCEPT
                        !.cid = cid,
                        !.couple = [couples[cid] EXCEPT !.user2 = user]]]
                /\ UNCHANGED resp
    /\ UNCHANGED <<page_vars, couples, active_couple, entries, today>>

\* join_with_code assigning the joining user to user1.
join_save_user1(r) ==
    /\ req[r].op = "join_vault"
    /\ req[r].pc = "save"
    /\ couples' = [couples EXCEPT ![req[r].cid] =
            [couples[req[r].cid] EXCEPT !.user1 = req[r].user]]
    /\ req' = [req EXCEPT ![r].pc = "profile"]
    /\ UNCHANGED <<page_vars, active_couple, entries, today, resp>>

\* Couple.join_with_code: couple.save() writes every column of the fetched row.
join_save(r) ==
    /\ req[r].op = "join_vault"
    /\ req[r].pc = "save"
    /\ couples' = [couples EXCEPT ![req[r].cid] = req[r].couple]
    /\ req' = [req EXCEPT ![r].pc = "profile"]
    /\ UNCHANGED <<page_vars, active_couple, entries, today, resp>>

\* views.select_vault up to the membership check.
select_vault(r, user, cid) ==
    /\ FirstIdle(r)
    /\ IF cid > Len(couples) \/ ~includes_user(couples[cid], user)
       THEN /\ resp' = Reply("select_vault", "denied")
            /\ UNCHANGED req
       ELSE /\ req' = [req EXCEPT ![r] =
                [Start(r, "select_vault", user, "profile") EXCEPT !.cid = cid]]
            /\ UNCHANGED resp
    /\ UNCHANGED <<page_vars, couples, active_couple, entries, today>>

SuccessOf(op) ==
    IF op = "create_vault" THEN "created"
    ELSE IF op = "join_vault" THEN "joined"
    ELSE "switched"

Finish(r) ==
    /\ resp' = Reply(req[r].op, SuccessOf(req[r].op))
    /\ req' = [req EXCEPT ![r] = Idle]

\* profile.active_couple = couple; profile.save(update_fields=['active_couple']).
\* The post_save receiver of Profile (signals.py) re-saves every couple of the
\* user with the column values it has just read; its reads and writes are taken
\* here in one step with the profile save, where they change no row.
profile_save(r) ==
    /\ req[r].pc = "profile"
    /\ active_couple' = [active_couple EXCEPT ![req[r].user] = req[r].cid]
    /\ Finish(r)
    /\ UNCHANGED <<page_vars, couples, entries, today>>

\* submit_entry without the is_ended returns.
submit_entry_outcome_no_ended(user, text) ==
    IF \/ active_couple[user] = NoCouple
       \/ ~includes_user(active_row(user), user)
       \/ active_row(user).user2 = NoUser
    THEN "NotPaired"
    ELSE IF get_todays_prompt(today) = NoPrompt THEN "NoPromptToday"
    ELSE IF get_user_entry_for_prompt(user, get_todays_prompt(today),
                                      active_couple[user]) # NoEntry
    THEN "DuplicateSubmission"
    ELSE IF strip(text) = <<>> THEN "FormInvalid"
    ELSE "ok"

\* submit_entry without the user2 test of its first return.
submit_entry_outcome_solo(user, text) ==
    IF \/ active_couple[user] = NoCouple
       \/ ~includes_user(active_row(user), user)
    THEN "NotPaired"
    ELSE IF active_row(user).is_ended THEN "VaultReadOnly"
    ELSE IF get_todays_prompt(today) = NoPrompt THEN "NoPromptToday"
    ELSE IF get_user_entry_for_prompt(user, get_todays_prompt(today),
                                      active_couple[user]) # NoEntry
    THEN "DuplicateSubmission"
    ELSE IF strip(text) = <<>> THEN "FormInvalid"
    ELSE "ok"

\* The early returns of views.submit_entry, in the order of the code; "ok" when
\* the view goes on to entry.save().
submit_entry_outcome(user, text) ==
    IF \/ active_couple[user] = NoCouple
       \/ ~includes_user(active_row(user), user)
       \/ active_row(user).user2 = NoUser
    THEN "NotPaired"
    ELSE IF active_row(user).is_ended THEN "VaultReadOnly"
    ELSE IF get_todays_prompt(today) = NoPrompt THEN "NoPromptToday"
    ELSE IF get_user_entry_for_prompt(user, get_todays_prompt(today),
                                      active_couple[user]) # NoEntry
    THEN "DuplicateSubmission"
    ELSE IF strip(text) = <<>> THEN "FormInvalid"
    ELSE "ok"

\* views.submit_entry up to form.is_valid().
submit_entry(r, user, text) ==
    /\ FirstIdle(r)
    /\ IF submit_entry_outcome(user, text) # "ok"
       THEN /\ resp' = Reply("submit_entry", submit_entry_outcome(user, text))
            /\ UNCHANGED req
       ELSE /\ req' = [req EXCEPT ![r] =
                [Start(r, "submit_entry", user, "insert") EXCEPT
                    !.cid = active_couple[user],
                    !.couple = active_row(user),
                    !.prompt = get_todays_prompt(today),
                    !.text = strip(text)]]
            /\ UNCHANGED resp
    /\ UNCHANGED <<page_vars, couples, active_couple, entries, today>>

\* views.submit_entry: entry.save().  An insert the unique constraint rejects
\* raises IntegrityError, which the view does not catch.
submit_insert(r) ==
    /\ req[r].op = "submit_entry"
    /\ req[r].pc = "insert"
    /\ IF unique_user_prompt_couple_entry(req[r].user, req[r].prompt, req[r].cid)
       THEN /\ entries' = Append(entries,
                [user |-> req[r].user, prompt |-> req[r].prompt,
                 couple |-> req[r].cid, text_content |-> req[r].text,
                 word_count |-> word_count_of(req[r].text),
                 created_at |-> today.year, sentiment_score |-> NoScore])
            /\ req' = [req EXCEPT ![r].pc = "lookup"]
            /\ UNCHANGED resp
       ELSE /\ resp' = Reply("submit_entry", "ServerError")
            /\ req' = [req EXCEPT ![r] = Idle]
            /\ UNCHANGED entries
    /\ UNCHANGED <<page_vars, couples, active_couple, today>>

\* The state views.submit_entry renders after the save.
submit_state(partner_entry) ==
    IF partner_entry # NoEntry THEN "unlocked" ELSE "waiting"

\* views.submit_entry: the partner lookup after the save, and the response.
submit_lookup(r) ==
    /\ req[r].op = "submit_entry"
    /\ req[r].pc = "lookup"
    /\ resp' = Reply("submit_entry", submit_state(
                    get_partner_entry_for_prompt(req[r].user, req[r].prompt,
                                                 req[r].cid, req[r].couple)))
    /\ req' = [req EXCEPT ![r] = Idle]
    /\ UNCHANGED <<page_vars, couples, active_couple, entries, today>>

\* daily_journal with the partner test of the waiting state inverted.
journal_state_inverted(user_entry, partner_entry) ==
    IF user_entry = NoEntry THEN "unanswered"
    ELSE IF user_entry # NoEntry /\ partner_entry # NoEntry THEN "waiting"
    ELSE "unlocked"

\* The three states of views.daily_journal, from the two lookups.
journal_state(user_entry, partner_entry) ==
    IF user_entry = NoEntry THEN "unanswered"
    ELSE IF user_entry # NoEntry /\ partner_entry = NoEntry THEN "waiting"
    ELSE "unlocked"

\* views.daily_journal: redirects, the empty state, or the journal state.
daily_journal_outcome(user) ==
    IF active_couple[user] = NoCouple \/ ~includes_user(active_row(user), user)
    THEN "redirect_setup"
    ELSE IF active_row(user).is_ended THEN "redirect_history"
    ELSE IF active_row(user).user2 = NoUser THEN "redirect_setup"
    ELSE IF get_todays_prompt(today) = NoPrompt THEN "no_prompt"
    ELSE journal_state(
            get_user_entry_for_prompt(user, get_todays_prompt(today),
                                      active_couple[user]),
            get_partner_entry_for_prompt(user, get_todays_prompt(today),
                                         active_couple[user], active_row(user)))

daily_journal(user) ==
    /\ resp' = Reply("daily_journal", daily_journal_outcome(user))
    /\ UNCHANGED <<page_vars, couples, active_couple, entries, today, req>>

\* check_partner_status testing the partner's entry only.
check_partner_status_outcome_partner_only(user) ==
    IF active_couple[user] = NoCouple \/ ~includes_user(active_row(user), user)
    THEN "empty"
    ELSE IF active_row(user).is_ended THEN "empty"
    ELSE IF get_todays_prompt(today) = NoPrompt THEN "empty"
    ELSE IF get_partner_entry_for_prompt(user, get_todays_prompt(today),
                    active_couple[user], active_row(user)) # NoEntry
    THEN "unlocked"
    ELSE "empty"

\* views.check_partner_status: "unlocked" with both entries, or the empty reply.
check_partner_status_outcome(user) ==
    IF active_couple[user] = NoCouple \/ ~includes_user(active_row(user), user)
    THEN "empty"
    ELSE IF active_row(user).is_ended THEN "empty"
    ELSE IF get_todays_prompt(today) = NoPrompt THEN "empty"
    ELSE IF /\ get_user_entry_for_prompt(user, get_todays_prompt(today),
                                         active_couple[user]) # NoEntry
            /\ get_partner_entry_for_prompt(user, get_todays_prompt(today),
                    active_couple[user], active_row(user)) # NoEntry
    THEN "unlocked"
    ELSE "empty"

check_partner_status(user) ==
    /\ resp' = Reply("check_partner_status", check_partner_status_outcome(user))
    /\ UNCHANGED <<page_vars, couples, active_couple, entries, today, req>>

\* Entry.objects.filter(user=partner, prompt=..., couple=...).first() of the
\* history views; a null partner matches no row.
history_partner_entry(partner, prompt, cid) ==
    IF partner = NoUser THEN NoEntry ELSE entry_for(partner, prompt, cid)

\* views.entry_history: the user's entries of the active vault, each with the
\* partner's entry for the same prompt.
entries_with_partner(user) ==
    { [user_entry |-> e,
       partner_entry |-> history_partner_entry(
            get_partner(active_row(user), user), entries[e].prompt,
            active_couple[user])] :
      e \in {f \in 1..Len(entries) :
                /\ entries[f].user = user
                /\ entries[f].couple = active_couple[user]} }

entry_history_outcome(user) ==
    IF active_couple[user] = NoCouple \/ ~includes_user(active_row(user), user)
    THEN "redirect_setup"
    ELSE "history"

entry_history(user) ==
    /\ resp' = Reply("entry_history", entry_history_outcome(user))
    /\ UNCHANGED <<page_vars, couples, active_couple, entries, today, req>>

\* views.entry_detail: Entry.objects.get(id, user, couple) of the active vault.
entry_detail_outcome(user, entry_id) ==
    IF active_couple[user] = NoCouple \/ ~includes_user(active_row(user), user)
    THEN "redirect_setup"
    ELSE IF \/ entry_id > Len(entries)
            \/ entries[entry_id].user # user
            \/ entries[entry_id].couple # active_couple[user]
    THEN "not_found"
    ELSE "detail"

\* The partner's entry views.entry_detail shows next to entry_id.
entry_detail_partner_entry(user, entry_id) ==
    history_partner_entry(get_partner(active_row(user), user),
                          entries[entry_id].prompt, active_couple[user])

entry_detail(user, entry_id) ==
    /\ resp' = Reply("entry_detail", entry_detail_outcome(user, entry_id))
    /\ UNCHANGED <<page_vars, couples, active_couple, entries, today, req>>

\* admin.CoupleAdmin: staff edit the is_ended flag of a couple.
admin_set_ended(cid, ended) ==
    /\ cid <= Len(couples)
    /\ couples[cid].is_ended # ended
    /\ couples' = [couples EXCEPT ![cid].is_ended = ended]
    /\ UNCHANGED <<page_vars, active_couple, entries, today, req, resp>>

\* The calendar moves on to the next day.
Tick ==
    /\ today.day < LastDay
    /\ today' = [today EXCEPT !.day = @ + 1]
    /\ UNCHANGED <<page_vars, couples, active_couple, entries, req, resp>>

\* ------------------------------------------------------------- pairing
\* The vault requests, from an empty database.
Next ==
    \/ \E r \in Reqs, u \in Users, code \in Codes : create_vault(r, u, code)
    \/ \E r \in Reqs, u \in Users, code \in Codes \cup {""} : join_vault(r, u, code)
    \/ \E r \in Reqs : join_save(r)
    \/ \E r \in Reqs, u \in Users, cid \in 1..(Len(couples) + 1) : select_vault(r, u, cid)
    \/ \E r \in Reqs : profile_save(r)

Spec == Init /\ [][Next]_vars

\* ------------------------------------------------------------- journal
\* The journal requests, from databases the vault requests lead to.  ann and
\* bob are paired in vault 1, their active vault.  cat has no vault, or is
\* left with a pointer to vault 1 after losing the join race for it, or is
\* alone in vault 2.  In the last start ann and bob share vault 2 as well,
\* where both answered prompt 3 before they switched back to vault 1.
Row(user1, user2, code) ==
    [NewCouple(user1, code) EXCEPT !.user2 = user2]

Pointers(a, b, c) ==
    [u \in Users |-> IF u = "ann" THEN a ELSE IF u = "bob" THEN b ELSE c]

EntryRow(user, prompt, cid, text) ==
    [user |-> user, prompt |-> prompt, couple |-> cid, text_content |-> text,
     word_count |-> word_count_of(text),
     created_at |-> 2025, sentiment_score |-> NoScore]

JournalStarts ==
    { [couples |-> <<Row("ann", "bob", "k1")>>,
       active |-> Pointers(1, 1, 0), entries |-> <<>>],
      [couples |-> <<Row("ann", "bob", "k1")>>,
       active |-> Pointers(1, 1, 1), entries |-> <<>>],
      [couples |-> <<Row("ann", "bob", "k1"), Row("cat", NoUser, "k2")>>,
       active |-> Pointers(1, 1, 2), entries |-> <<>>],
      [couples |-> <<Row("ann", "bob", "k1"), Row("bob", "ann", "k2")>>,
       active |-> Pointers(1, 1, 0),
       entries |-> <<EntryRow("ann", 3, 2, <<"w">>),
                     EntryRow("bob", 3, 2, <<"w">>)>>] }

JournalInit ==
    /\ \E s \in JournalStarts :
        /\ couples = s.couples
        /\ active_couple = s.active
        /\ entries = s.entries
    /\ today = [year |-> 2025, day |-> 1]
    /\ req = [r \in Reqs |-> Idle]
    /\ resp = NoResp
    /\ NoSparks

NextJournal ==
    \/ \E r \in Reqs, u \in Users, text \in InputTexts : submit_entry(r, u, text)
    \/ \E r \in Reqs : submit_insert(r)
    \/ \E r \in Reqs : submit_lookup(r)
    \/ \E u \in Users : daily_journal(u)
    \/ \E u \in Users : check_partner_status(u)
    \/ \E u \in Users : entry_history(u)
    \/ \E u \in Users, e \in 1..(Len(entries) + 1) : entry_detail(u, e)
    \/ \E cid \in 1..Len(couples), ended \in BOOLEAN : admin_set_ended(cid, ended)
    \/ Tick

SpecJournal == JournalInit /\ [][NextJournal]_vars

\* ------------------------------------------------------------ settings
\* What a date input of the couple settings form can hold: nothing, a date,
\* or text that is no date.  The form has two date inputs, anniversary_date
\* and ended_date, which every branch of the view handles alike; ended_date
\* stands for both.
InputDates == {NoDate, "2024-06-01", "June"}

\* forms.DateField.to_python accepts the empty value and well-formed dates.
is_date_input(value) == value # "June"

\* The POST data of the couple settings form; an unchecked or disabled
\* checkbox submits nothing and is read as False.
CoupleForms ==
    [is_ended : BOOLEAN, ended_date : InputDates]

\* CoupleSettingsForm.is_valid(): every field is optional.
couple_form_is_valid(form) ==
    is_date_input(form.ended_date)

\* ModelForm._post_clean: is_valid() writes the cleaned fields into the
\* instance the form was given.
construct_instance(couple, form) ==
    [couple EXCEPT !.is_ended = form.is_ended,
                   !.ended_date = form.ended_date]

\* settings_view without the includes_user test.
settings_couple_any(user) == active_couple[user]

\* The couple views.settings_view works on: the active couple of a member.
settings_couple(user) ==
    IF active_couple[user] # NoCouple /\ includes_user(active_row(user), user)
    THEN active_couple[user]
    ELSE NoCouple

\* The branch views.settings_view takes after is_valid(), tested on the
\* instance is_valid() has written into.
couple_submit_branch(couple, form) ==
    IF ~couple.is_ended /\ form.is_ended THEN "save_ended"
    ELSE IF couple.is_ended THEN "save_dates"
    ELSE "save_all"

\* views.settings_view, couple_submit, up to the save.  Without a couple the
\* form saves a new Couple without user1, which the database rejects.
settings_couple_submit(r, user, form) ==
    /\ FirstIdle(r)
    /\ LET cid == settings_couple(user)
           couple == construct_instance(active_row(user), form)
       IN  IF ~couple_form_is_valid(form)
           THEN /\ resp' = Reply("couple_submit", "FormInvalid")
                /\ UNCHANGED req
           ELSE IF cid = NoCouple
           THEN /\ resp' = Reply("couple_submit", "ServerError")
                /\ UNCHANGED req
           ELSE /\ req' = [req EXCEPT ![r] =
                    [Start(r, "couple_submit", user,
                           couple_submit_branch(couple, form)) EXCEPT
                        !.cid = cid,
                        !.couple =
                            IF couple_submit_branch(couple, form) = "save_ended"
                            THEN [couple EXCEPT !.reactivation_requested_by = NoUser]
                            ELSE couple]]
                /\ UNCHANGED resp
    /\ UNCHANGED <<page_vars, couples, active_couple, entries, today>>

\* views.settings_view, couple_submit: couple_form.save() writes every column,
\* couple.save(update_fields=[...]) the two dates.
settings_save(r) ==
    /\ req[r].op = "couple_submit"
    /\ couples' = [couples EXCEPT ![req[r].cid] =
            IF req[r].pc = "save_dates"
            THEN [@ EXCEPT !.ended_date = req[r].couple.ended_date]
            ELSE req[r].couple]
    /\ resp' = Reply("couple_submit",
                     IF req[r].pc = "save_ended" THEN "ended" ELSE "updated")
    /\ req' = [req EXCEPT ![r] = Idle]
    /\ UNCHANGED <<page_vars, active_couple, entries, today>>

\* request_reactivation taking the request of the other member as approval.
request_reactivation_approves(couple, user) ==
    IF couple.reactivation_requested_by = user
    THEN [couple |-> couple, success |-> FALSE]
    ELSE IF couple.reactivation_requested_by # NoUser
    THEN [couple |-> [couple EXCEPT !.is_ended = FALSE,
                                    !.reactivation_requested_by = NoUser],
          success |-> TRUE]
    ELSE [couple |-> [couple EXCEPT !.reactivation_requested_by = user],
          success |-> TRUE]

\* Couple.request_reactivation: the requester is recorded; a second request
\* of the same requester changes nothing.
request_reactivation(couple, user) ==
    IF couple.reactivation_requested_by = user
    THEN [couple |-> couple, success |-> FALSE]
    ELSE [couple |-> [couple EXCEPT !.reactivation_requested_by = user],
          success |-> TRUE]

has_pending_reactivation(couple) ==
    couple.reactivation_requested_by # NoUser

\* settings_view calling request_reactivation without the is_ended test.
settings_request_reactivation_any(user) ==
    LET cid == settings_couple(user)
    IN  IF cid # NoCouple
        THEN /\ couples' = [couples EXCEPT ![cid] =
                    request_reactivation(couples[cid], user).couple]
             /\ resp' = Reply("request_reactivation",
                    IF request_reactivation(couples[cid], user).success
                    THEN "requested" ELSE "already_requested")
             /\ UNCHANGED <<page_vars, active_couple, entries, today, req>>
        ELSE /\ resp' = Reply("request_reactivation", "ignored")
             /\ UNCHANGED <<page_vars, couples, active_couple, entries, today, req>>

\* views.settings_view, request_reactivation: only for an ended couple.
settings_request_reactivation(user) ==
    LET cid == settings_couple(user)
    IN  IF cid # NoCouple /\ couples[cid].is_ended
        THEN /\ couples' = [couples EXCEPT ![cid] =
                    request_reactivation(couples[cid], user).couple]
             /\ resp' = Reply("request_reactivation",
                    IF request_reactivation(couples[cid], user).success
                    THEN "requested" ELSE "already_requested")
             /\ UNCHANGED <<page_vars, active_couple, entries, today, req>>
        ELSE /\ resp' = Reply("request_reactivation", "ignored")
             /\ UNCHANGED <<page_vars, couples, active_couple, entries, today, req>>

\* The settings requests and staff edits, from databases the vault requests
\* lead to: ann and bob are paired in vault 1; cat has no vault or is left with
\* a pointer to vault 1 after losing the join race for it.
SettingsInit ==
    /\ couples = <<Row("ann", "bob", "k1")>>
    /\ active_couple \in {Pointers(1, 1, 0), Pointers(1, 1, 1)}
    /\ entries = <<>>
    /\ today = [year |-> 2025, day |-> 1]
    /\ req = [r \in Reqs |-> Idle]
    /\ resp = NoResp
    /\ NoSparks

NextSettings ==
    \/ \E r \in Reqs, u \in Users, form \in CoupleForms : settings_couple_submit(r, u, form)
    \/ \E r \in Reqs : settings_save(r)
    \/ \E u \in Users : settings_request_reactivation(u)
    \/ \E cid \in 1..Len(couples), ended \in BOOLEAN : admin_set_ended(cid, ended)

SpecSettings == SettingsInit /\ [][NextSettings]_vars

\* ------------------------------------------------------------- prompts
\* The calendar moves on to the first day of the next year.
NewYear ==
    /\ today.year < LastYear
    /\ today' = [year |-> today.year + 1, day |-> 1]
    /\ UNCHANGED <<page_vars, couples, active_couple, entries, req, resp>>

\* The views that resolve today's prompt, over the days and years, on the
\* databases of the journal and with staff ending and reopening vaults.
NextPrompt ==
    \/ \E u \in Users : daily_journal(u)
    \/ \E u \in Users : check_partner_status(u)
    \/ \E cid \in 1..Len(couples), ended \in BOOLEAN : admin_set_ended(cid, ended)
    \/ Tick
    \/ NewYear

SpecPrompt == JournalInit /\ [][NextPrompt]_vars

\* -------------------------------------------------------------- sparks
\* seq[-n:]
last_ids(seq, n) ==
    IF Len(seq) <= n THEN seq ELSE SubSeq(seq, Len(seq) - n + 1, Len(seq))

ids_of(seq) == {seq[i] : i \in 1..Len(seq)}

\* get_random leaving out the ids in exclude_ids and the Sparks the user has
\* archived, with nothing to fall back on.
get_random_excluding(category, vibe, user, exclude_ids) ==
    LET qs == {s \in Sparks :
                /\ category # "" => s.category = category
                /\ vibe # NoVibe => s.vibe = vibe
                /\ s.id \notin ids_of(exclude_ids)
                /\ ~\E i \in 1..Len(preferences) :
                        /\ preferences[i].user = user
                        /\ preferences[i].spark = s.id
                        /\ preferences[i].is_archived}
    IN  IF qs = {} THEN {NoSpark} ELSE {s.id : s \in qs}

\* Spark.get_random: the ids order_by('?').first() can return, NoSpark alone
\* when no Spark has the category and the vibe.  The method declares category
\* and vibe only: the user and the exclude_ids of the views select nothing.
get_random(category, vibe, user, exclude_ids) ==
    LET qs == {s \in Sparks : /\ category # "" => s.category = category
                              /\ vibe # NoVibe => s.vibe = vibe}
    IN  IF qs = {} THEN {NoSpark} ELSE {s.id : s \in qs}

\* SparkPreference.objects.filter(user=user, spark=spark)
preferences_of(user, spark_id) ==
    {i \in 1..Len(preferences) :
        preferences[i].user = user /\ preferences[i].spark = spark_id}

\* pref = ...filter(user, spark).first(); pref.is_archived if pref else False
is_archived(user, spark_id) ==
    /\ preferences_of(user, spark_id) # {}
    /\ preferences[CHOOSE i \in preferences_of(user, spark_id) :
            \A j \in preferences_of(user, spark_id) : i <= j].is_archived

\* The context the card templates are rendered with.
card_context(user, category, vibe, id) ==
    [user |-> user, category |-> category, vibe |-> vibe, spark |-> id,
     is_archived |-> id # NoSpark /\ is_archived(user, id)]

\* The guard without its test of user2.
spark_gate_any_vault(user) ==
    IF \/ active_couple[user] = NoCouple
       \/ ~includes_user(active_row(user), user)
    THEN "NotPaired"
    ELSE IF active_row(user).is_ended THEN "ended"
    ELSE "ok"

\* The guard every spark page starts with.
spark_gate(user) ==
    IF \/ active_couple[user] = NoCouple
       \/ ~includes_user(active_row(user), user)
       \/ active_row(user).user2 = NoUser
    THEN "NotPaired"
    ELSE IF active_row(user).is_ended THEN "ended"
    ELSE "ok"

\* The history kept whole.
remember_all(history, id) ==
    IF id \in ids_of(history) THEN history ELSE Append(history, id)

\* if spark.id not in history: history.append(spark.id); history[-20:]
remember(history, id) ==
    last_ids(IF id \in ids_of(history) THEN history ELSE Append(history, id),
             HistoryCap)

\* The spark pages answer with a card (there may be no Spark on it) or
\* without one.
show(op, outcome, ctx) ==
    /\ resp' = Reply(op, outcome)
    /\ context' = ctx
    /\ spark_requests' = spark_requests + 1

\* views.spark_card
spark_card(user, category, vibe) ==
    /\ spark_requests < MaxSparkRequests
    /\ IF spark_gate(user) = "NotPaired"
       THEN show("spark_card", "redirect_setup", NoContext) /\ UNCHANGED session
       ELSE IF spark_gate(user) = "ended"
       THEN show("spark_card", "redirect_history", NoContext) /\ UNCHANGED session
       ELSE IF category \notin valid_categories
       THEN show("spark_card", "redirect_index", NoContext) /\ UNCHANGED session
       ELSE \E id \in get_random(category, vibe, user,
                        last_ids(session[user][category], RecentWindow)) :
                /\ show("spark_card", "card", card_context(user, category, vibe, id))
                /\ session' = IF id = NoSpark THEN session
                              ELSE [session EXCEPT ![user][category] = remember(@, id)]
    /\ UNCHANGED <<wrapped, couples, active_couple, entries, today, req, preferences>>

\* views.spark_next
spark_next(user, category, vibe) ==
    /\ spark_requests < MaxSparkRequests
    /\ IF spark_gate(user) # "ok"
       THEN show("spark_next", spark_gate(user), NoContext) /\ UNCHANGED session
       ELSE \E id \in get_random(category, vibe, user,
                        last_ids(session[user][category], RecentWindow)) :
                /\ show("spark_next", "card", card_context(user, category, vibe, id))
                /\ session' = IF id = NoSpark THEN session
                              ELSE [session EXCEPT ![user][category] = remember(@, id)]
    /\ UNCHANGED <<wrapped, couples, active_couple, entries, today, req, preferences>>

\* spark_prev showing the card before the current one and popping nothing.
spark_prev_keep(user, category) ==
    /\ spark_requests < MaxSparkRequests
    /\ LET history == session[user][category]
           popped == SubSeq(history, 1, Len(history) - 1)
           previous_spark_id == popped[Len(popped)]
       IN  IF spark_gate(user) # "ok"
           THEN show("spark_prev", spark_gate(user), NoContext)
           ELSE IF Len(history) < 2
           THEN show("spark_prev", "no_previous", NoContext)
           ELSE IF previous_spark_id \in {s.id : s \in Sparks}
           THEN show("spark_prev", "card",
                     card_context(user, category, NoVibe, previous_spark_id))
           ELSE show("spark_prev", "card",
                     card_context(user, category, NoVibe, NoSpark))
    /\ UNCHANGED <<wrapped, couples, active_couple, entries, today, req, preferences, session>>

\* views.spark_prev: with two ids or more the current card is popped and the
\* one before it shown; the id of a Spark that exists no more is popped too.
spark_prev(user, category) ==
    /\ spark_requests < MaxSparkRequests
    /\ LET history == session[user][category]
           popped == SubSeq(history, 1, Len(history) - 1)
           previous_spark_id == popped[Len(popped)]
       IN  IF spark_gate(user) # "ok"
           THEN show("spark_prev", spark_gate(user), NoContext) /\ UNCHANGED session
           ELSE IF Len(history) < 2
           THEN show("spark_prev", "no_previous", NoContext) /\ UNCHANGED session
           ELSE IF previous_spark_id \in {s.id : s \in Sparks}
           THEN /\ show("spark_prev", "card",
                     card_context(user, category, NoVibe, previous_spark_id))
                /\ session' = [session EXCEPT ![user][category] = popped]
           ELSE /\ show("spark_prev", "card",
                     card_context(user, category, NoVibe, NoSpark))
                /\ session' = [session EXCEPT ![user][category] =
                                    SubSeq(popped, 1, Len(popped) - 1)]
    /\ UNCHANGED <<wrapped, couples, active_couple, entries, today, req, preferences>>

\* objects.create in the place of get_or_create.
upsert_preference_create(user, spark_id, archived) ==
    Append(preferences,
           [user |-> user, spark |-> spark_id, is_archived |-> archived])

\* get_or_create(user, spark, defaults={'is_archived': ...}) and, when the row
\* was there, pref.is_archived = ...; pref.save().
upsert_preference(user, spark_id, archived) ==
    IF preferences_of(user, spark_id) = {}
    THEN Append(preferences,
                [user |-> user, spark |-> spark_id, is_archived |-> archived])
    ELSE [preferences EXCEPT
            ![CHOOSE i \in preferences_of(user, spark_id) : TRUE].is_archived =
                archived]

\* The spark ids of the archive requests.
ArchiveInputs == {1, HistoryCap + 2, DeletedSpark}

\* views.spark_archive
spark_archive(user, spark_id) ==
    /\ spark_requests < MaxSparkRequests
    /\ IF spark_id \notin {s.id : s \in Sparks}
       THEN show("spark_archive", "not_found", NoContext) /\ UNCHANGED preferences
       ELSE /\ show("spark_archive", "archived", NoContext)
            /\ preferences' = upsert_preference(user, spark_id, TRUE)
    /\ UNCHANGED <<wrapped, couples, active_couple, entries, today, req, session>>

\* views.spark_unarchive
spark_unarchive(user, spark_id) ==
    /\ spark_requests < MaxSparkRequests
    /\ IF spark_id \notin {s.id : s \in Sparks}
       THEN show("spark_unarchive", "not_found", NoContext) /\ UNCHANGED preferences
       ELSE /\ show("spark_unarchive", "unarchived", NoContext)
            /\ preferences' = upsert_preference(user, spark_id, FALSE)
    /\ UNCHANGED <<wrapped, couples, active_couple, entries, today, req, session>>

\* The histories a session starts with: none, a full one, and one that holds
\* the id of a Spark deleted since.
SparkHistories ==
    { <<>>, [i \in 1..HistoryCap |-> i], <<1, DeletedSpark, 2>> }

\* The spark requests of ann, bob (paired in vault 1) and cat (no vault), with
\* staff ending and reopening the vault.
SparkInit ==
    /\ couples = <<Row("ann", "bob", "k1")>>
    /\ active_couple = Pointers(1, 1, 0)
    /\ entries = <<>>
    /\ today = [year |-> 2025, day |-> 1]
    /\ req = [r \in Reqs |-> Idle]
    /\ resp = NoResp
    /\ \E h \in SparkHistories :
            session = [u \in Users |-> [c \in CategoryInputs |->
                            IF u = "ann" /\ c = "date" THEN h ELSE <<>>]]
    /\ preferences = <<>>
    /\ context = NoContext
    /\ spark_requests = 0
    /\ wrapped = NoWrapped

NextSpark ==
    \/ \E u \in Users, c \in CategoryInputs, v \in VibeInputs : spark_card(u, c, v)
    \/ \E u \in Users, c \in CategoryInputs, v \in VibeInputs : spark_next(u, c, v)
    \/ \E u \in Users, c \in CategoryInputs : spark_prev(u, c)
    \/ \E u \in Users, id \in ArchiveInputs : spark_archive(u, id)
    \/ \E u \in Users, id \in ArchiveInputs : spark_unarchive(u, id)
    \/ \E cid \in 1..Len(couples), ended \in BOOLEAN : admin_set_ended(cid, ended)

SpecSpark == SparkInit /\ [][NextSpark]_vars

\* ------------------------------------------------------- analytics.py
\* CoupleAnalytics(couple, year) for the vault with row id cid.  Sentiment
\* scores are kept in tenths, the scores and rates computed from them in
\* thousandths.

\* round(num / den, 3) in thousandths, for num >= 0 already multiplied by 1000:
\* to the nearest thousandth, a tie going to the even one.
round_3(num, den) ==
    LET q == num \div den
        r == num % den
    IN  IF 2 * r < den THEN q
        ELSE IF 2 * r > den THEN q + 1
        ELSE IF q % 2 = 0 THEN q ELSE q + 1

\* values_list('prompt_id') of Entry.objects.filter(user, couple, created_at__year)
prompts_answered(user, cid, year) ==
    {entries[e].prompt : e \in {f \in 1..Len(entries) :
                                    /\ entries[f].user = user
                                    /\ entries[f].couple = cid
                                    /\ entries[f].created_at = year}}

\* get_paired_entries taking the prompts of member1 for the shared ones.
get_paired_entries_of_user1(cid, year) ==
    {[prompt |-> p,
      entry1 |-> entry_for(couples[cid].user1, p, cid),
      entry2 |-> entry_for(couples[cid].user2, p, cid)] :
        p \in prompts_answered(couples[cid].user1, cid, year)}

\* The (prompt, entry1, entry2) of the prompts both members answered.
get_paired_entries(cid, year) ==
    {[prompt |-> p,
      entry1 |-> entry_for(couples[cid].user1, p, cid),
      entry2 |-> entry_for(couples[cid].user2, p, cid)] :
        p \in prompts_answered(couples[cid].user1, cid, year)
               \cap prompts_answered(couples[cid].user2, cid, year)}

RECURSIVE sum_over(_, _)
\* sum(f[x] for x in set)
sum_over(f, set) ==
    IF set = {} THEN 0
    ELSE LET x == CHOOSE y \in set : TRUE
         IN  f[x] + sum_over(f, set \ {x})

abs(x) == IF x < 0 THEN -x ELSE x

\* A null score counts as 0: (e.sentiment_score or 0)
score_or_0(e) ==
    IF entries[e].sentiment_score = NoScore THEN 0 ELSE entries[e].sentiment_score

\* sentiment_sync_score reading a null score as 0.
sentiment_sync_score_or_0(cid, year) ==
    LET paired == get_paired_entries(cid, year)
        diff == [t \in paired |-> abs(score_or_0(t.entry1) - score_or_0(t.entry2))]
    IN  IF paired = {} THEN NoScore
        ELSE round_3(1000 * Cardinality(paired) - 50 * sum_over(diff, paired),
                     Cardinality(paired))

\* 1 - avg_diff / 2 over the pairs scored on both sides, rounded to 3 decimals.
sentiment_sync_score(cid, year) ==
    LET paired == get_paired_entries(cid, year)
        scored_pairs == {t \in paired :
                            /\ entries[t.entry1].sentiment_score # NoScore
                            /\ entries[t.entry2].sentiment_score # NoScore}
        diff == [t \in scored_pairs |->
                    abs(entries[t.entry1].sentiment_score
                        - entries[t.entry2].sentiment_score)]
    IN  IF paired = {} THEN NoScore
        ELSE IF scored_pairs = {} THEN NoScore
        ELSE round_3(1000 * Cardinality(scored_pairs)
                        - 50 * sum_over(diff, scored_pairs),
                     Cardinality(scored_pairs))

\* response_rate cutting the quotient off after 3 decimals.
response_rate_cut(cid, year) ==
    LET total_prompts == Cardinality({p \in Prompts : p.year = year})
    IN  IF total_prompts = 0 THEN 0
        ELSE (1000 * Cardinality(get_paired_entries(cid, year))) \div total_prompts

\* both_answered / total_prompts rounded to 3 decimals, 0.0 without prompts.
response_rate(cid, year) ==
    LET total_prompts == Cardinality({p \in Prompts : p.year = year})
    IN  IF total_prompts = 0 THEN 0
        ELSE round_3(1000 * Cardinality(get_paired_entries(cid, year)),
                     total_prompts)

\* total_words_together summing over the vaults of the two members.
total_words_any_vault(cid, year) ==
    LET of_year == {e \in 1..Len(entries) :
                        /\ entries[e].user \in {couples[cid].user1, couples[cid].user2} \ {NoUser}
                        /\ entries[e].created_at = year}
    IN  sum_over([e \in of_year |-> entries[e].word_count], of_year)

\* Entry.objects.filter(user__in=self.users, couple=self.couple, created_at__year)
entries_of_year(cid, year) ==
    {e \in 1..Len(entries) :
        /\ entries[e].user \in {couples[cid].user1, couples[cid].user2} \ {NoUser}
        /\ entries[e].couple = cid
        /\ entries[e].created_at = year}

total_words_together(cid, year) ==
    sum_over([e \in entries_of_year(cid, year) |-> entries[e].word_count],
             entries_of_year(cid, year))

\* Avg('sentiment_score') over the scored entries, as [sum, count]; null
\* without a scored entry.
couple_average_sentiment(cid, year) ==
    LET scored == {e \in entries_of_year(cid, year) :
                        entries[e].sentiment_score # NoScore}
    IN  IF scored = {} THEN [sum |-> NoScore, count |-> 0]
        ELSE [sum |-> sum_over([e \in scored |-> entries[e].sentiment_score], scored),
              count |-> Cardinality(scored)]

RECURSIVE sorted_desc(_, _)
\* list.sort(key, reverse=True): the greatest key first, triples of equal key
\* in the order they had, which is the order of a set of small prompt ids.
sorted_desc(triples, key) ==
    IF triples = {} THEN <<>>
    ELSE LET t == CHOOSE v \in triples :
                    \A u \in triples :
                        key[u] < key[v] \/ (key[u] = key[v] /\ v.prompt <= u.prompt)
         IN  <<t>> \o sorted_desc(triples \ {t}, key)

\* The sum of the two scores of a triple.
combined_joy(t) == score_or_0(t.entry1) + score_or_0(t.entry2)

\* shared_joy_moments without the sort: the joyful pairs in the order of
\* get_paired_entries.
shared_joy_moments_unsorted(cid, year, threshold) ==
    LET joyful == {t \in get_paired_entries(cid, year) :
                      score_or_0(t.entry1) >= threshold
                      /\ score_or_0(t.entry2) >= threshold}
    IN  sorted_desc(joyful, [t \in joyful |-> 0])

\* Both scores at or above the threshold (in tenths; 0.3 by default), the
\* greatest combined score first.
shared_joy_moments(cid, year, threshold) ==
    LET joyful == {t \in get_paired_entries(cid, year) :
                      score_or_0(t.entry1) >= threshold
                      /\ score_or_0(t.entry2) >= threshold}
    IN  sorted_desc(joyful, [t \in joyful |-> combined_joy(t)])

\* Both scores at or below the threshold of -0.2.
tough_days_together(cid, year) ==
    {t \in get_paired_entries(cid, year) :
        score_or_0(t.entry1) <= -2 /\ score_or_0(t.entry2) <= -2}

\* The scores are 0.5 or more apart.
emotional_support_moments(cid, year) ==
    {t \in get_paired_entries(cid, year) :
        abs(score_or_0(t.entry1) - score_or_0(t.entry2)) >= 5}

\* The first of the triples with the greatest key; the triples come in the
\* order of a set of small prompt ids.
first_max(triples, key) ==
    IF triples = {} THEN NoPrompt
    ELSE (CHOOSE t \in triples :
            \A u \in triples :
                key[u] < key[t] \/ (key[u] = key[t] /\ t.prompt <= u.prompt)).prompt

longest_combined_entry(cid, year) ==
    LET paired == get_paired_entries(cid, year)
    IN  first_max(paired, [t \in paired |->
            entries[t.entry1].word_count + entries[t.entry2].word_count])

\* values('prompt__category').annotate(Count('id')): the entries counted by
\* prompt, the category being a field of the prompt.
top_vibe_together(cid, year) ==
    [p \in {q.id : q \in Prompts} |->
        Cardinality({e \in entries_of_year(cid, year) : entries[e].prompt = p})]

\* The dictionary of the wrapped data, without the two fields that group by
\* month (happiest_month, monthly_sentiment): created_at is kept by year.
wrapped_dict(cid, year) ==
    [year |-> year,
     users |-> <<couples[cid].user1, couples[cid].user2>>,
     couple_sentiment |-> couple_average_sentiment(cid, year),
     sync_score |-> sentiment_sync_score(cid, year),
     shared_joy_count |-> Len(shared_joy_moments(cid, year, 3)),
     top_joy_moment |->
        LET joyful == shared_joy_moments(cid, year, 3)
        IN  IF joyful = <<>> THEN NoPrompt ELSE joyful[1].prompt,
     tough_days_count |-> Cardinality(tough_days_together(cid, year)),
     support_moments |-> Cardinality(emotional_support_moments(cid, year)),
     total_words |-> total_words_together(cid, year),
     response_rate |-> response_rate(cid, year),
     top_vibes |-> top_vibe_together(cid, year),
     most_words_prompt |-> longest_combined_entry(cid, year)]

\* What the call leaves when it raises: self.user2.username of a null user2.
AttributeError == [raised |-> "AttributeError"]

\* CoupleAnalytics(couple, year).generate_wrapped_data(): the dictionary
\* literal reads self.user1.username and self.user2.username first.
generate_wrapped_data(cid, year) ==
    IF couples[cid].user2 = NoUser THEN AttributeError
    ELSE wrapped_dict(cid, year)

\* views.wrapped_view for a year of the URL (the year of today is one of them)
wrapped_view(user, year) ==
    /\ IF \/ active_couple[user] = NoCouple
          \/ ~includes_user(active_row(user), user)
          \/ active_row(user).user2 = NoUser
       THEN /\ resp' = Reply("wrapped_view", "redirect_setup")
            /\ wrapped' = NoWrapped
       ELSE /\ resp' = Reply("wrapped_view", "wrapped")
            /\ wrapped' = generate_wrapped_data(active_couple[user], year)
    /\ UNCHANGED <<couples, active_couple, entries, today, req,
                   session, preferences, context, spark_requests>>

\* The score TextBlob gives the texts of the model, in tenths.
ScoreInputs == {5}

\* manage.py calculate_sentiment scores an entry that has no score.
calculate_sentiment(e, score) ==
    /\ entries[e].user # NoUser
    /\ entries[e].sentiment_score = NoScore
    /\ entries' = [entries EXCEPT ![e].sentiment_score = score]
    /\ UNCHANGED <<page_vars, couples, active_couple, today, req, resp>>

\* A deleted row: its id is not given to another row.
DeletedEntry ==
    [user |-> NoUser, prompt |-> NoPrompt, couple |-> NoCouple,
     text_content |-> <<>>, word_count |-> 0,
     created_at |-> 0, sentiment_score |-> NoScore]

\* Staff delete an Entry in the admin.
admin_delete_entry(e) ==
    /\ entries[e].user # NoUser
    /\ entries' = [entries EXCEPT ![e] = DeletedEntry]
    /\ UNCHANGED <<page_vars, couples, active_couple, today, req, resp>>

\* The entries staff add in the admin.
AdminEntries ==
    { [user |-> "ann", prompt |-> 1, couple |-> 1],
      [user |-> "bob", prompt |-> 1, couple |-> 2] }

\* Staff add an Entry in the admin: created_at is read-only there and set by
\* auto_now_add.
admin_add_entry(row) ==
    /\ Len(entries) < MaxEntries
    /\ unique_user_prompt_couple_entry(row.user, row.prompt, row.couple)
    /\ entries' = Append(entries,
            [user |-> row.user, prompt |-> row.prompt, couple |-> row.couple,
             text_content |-> <<"w">>, word_count |-> word_count_of(<<"w">>),
             created_at |-> today.year, sentiment_score |-> NoScore])
    /\ UNCHANGED <<page_vars, couples, active_couple, today, req, resp>>

\* An entry of 2024 with its score.
ScoredEntry(user, prompt, cid, text, score) ==
    [EntryRow(user, prompt, cid, text) EXCEPT
        !.created_at = 2024, !.sentiment_score = score]

\* The years of the wrapped pages.
WrappedYears == {2024, 2025, 2026}

\* The wrapped pages over the entries of two vaults of ann and bob: in 2024
\* both answered prompts 3, 2 and 4 in vault 1 (bob's answer to prompt 2 may
\* be unscored) and prompt 3 in vault 2.  ann has vault 1 active, bob vault 2.
\* Staff score entries, add entries and delete entries of bob.
WrappedInit ==
    /\ couples = <<Row("ann", "bob", "k1"), Row("bob", "ann", "k2")>>
    /\ active_couple = Pointers(1, 2, 0)
    /\ \E s \in {-10, NoScore} :
        entries = << ScoredEntry("ann", 3, 1, <<"w">>, 5),
                     ScoredEntry("bob", 3, 1, <<"w">>, 5),
                     ScoredEntry("ann", 2, 1, <<"w", " ", "w">>, 10),
                     ScoredEntry("bob", 2, 1, <<"w">>, s),
                     ScoredEntry("ann", 4, 1, <<"w">>, 2),
                     ScoredEntry("bob", 4, 1, <<"w">>, -3),
                     ScoredEntry("ann", 3, 2, <<"w">>, 10),
                     ScoredEntry("bob", 3, 2, <<"w">>, -10) >>
    /\ today = [year |-> 2025, day |-> 1]
    /\ req = [r \in Reqs |-> Idle]
    /\ resp = NoResp
    /\ NoSparks

NextWrapped ==
    \/ \E u \in Users, year \in WrappedYears : wrapped_view(u, year)
    \/ \E e \in 1..Len(entries), score \in ScoreInputs : calculate_sentiment(e, score)
    \/ \E e \in {f \in 1..Len(entries) : entries[f].user = "bob"} : admin_delete_entry(e)
    \/ \E row \in AdminEntries : admin_add_entry(row)

SpecWrapped == WrappedInit /\ [][NextWrapped]_vars

\* ----------------------------------------------------- analytics calls
\* CoupleAnalytics(couple, year).generate_wrapped_data() called for a vault
\* of the database, whatever its members.
analytics_wrapped(cid, year) ==
    /\ wrapped' = generate_wrapped_data(cid, year)
    /\ resp' = Reply("generate_wrapped_data",
                     IF generate_wrapped_data(cid, year) = AttributeError
                     THEN "raised" ELSE "returned")
    /\ UNCHANGED <<couples, active_couple, entries, today, req,
                   session, preferences, context, spark_requests>>

\* ann and bob are paired in vault 1, cat is alone in vault 2.  ann and bob
\* answered prompt 3 in 2024, or nobody has written anything.
AnalyticsInit ==
    /\ couples = <<Row("ann", "bob", "k1"), Row("cat", NoUser, "k2")>>
    /\ active_couple = Pointers(1, 1, 2)
    /\ entries \in { <<>>,
                      << ScoredEntry("ann", 3, 1, <<"w">>, 5),
                         ScoredEntry("bob", 3, 1, <<"w">>, NoScore) >> }
    /\ today = [year |-> 2025, day |-> 1]
    /\ req = [r \in Reqs |-> Idle]
    /\ resp = NoResp
    /\ NoSparks

\* The entries staff add in the admin: for a member of each vault.
AnalyticsEntries ==
    { [user |-> "ann", prompt |-> 1, couple |-> 1],
      [user |-> "bob", prompt |-> 1, couple |-> 1],
      [user |-> "cat", prompt |-> 1, couple |-> 2] }

NextAnalytics ==
    \/ \E cid \in 1..Len(couples), year \in WrappedYears : analytics_wrapped(cid, year)
    \/ \E e \in 1..Len(entries), score \in ScoreInputs : calculate_sentiment(e, score)
    \/ \E row \in AnalyticsEntries : admin_add_entry(row)

SpecAnalytics == AnalyticsInit /\ [][NextAnalytics]_vars

\* --------------------------------------------------------- entry saves
\* An Entry is given a new text and saved: entry.text_content = text;
\* entry.save().  The text is any string, the empty one included.
entry_save(e, text) ==
    /\ entries[e].user # NoUser
    /\ entries[e].text_content # text
    /\ entries' = [entries EXCEPT ![e].text_content = text,
                                  ![e].word_count = word_count_of(text)]
    /\ UNCHANGED <<page_vars, couples, active_couple, today, req, resp>>

\* ann and bob, paired in vault 1, have not written today.
SaveInit ==
    /\ couples = <<Row("ann", "bob", "k1")>>
    /\ active_couple = Pointers(1, 1, 0)
    /\ entries = <<>>
    /\ today = [year |-> 2025, day |-> 1]
    /\ req = [r \in Reqs |-> Idle]
    /\ resp = NoResp
    /\ NoSparks

\* Entries are created by the journal form and saved again with other texts.
NextSave ==
    \/ \E r \in Reqs, u \in Users \ {"cat"}, text \in InputTexts : submit_entry(r, u, text)
    \/ \E r \in Reqs : submit_insert(r)
    \/ \E r \in Reqs : submit_lookup(r)
    \/ \E e \in 1..Len(entries), text \in InputTexts : entry_save(e, text)

SpecSave == SaveInit /\ [][NextSave]_vars

\* ------------------------------------------------------ sparks, gated
\* ann is paired with bob in vault 1 and alone in vault 2; either is her
\* active vault.  She has seen Sparks 1 and 2 of "date" while vault 1 was
\* active.  Staff end and reopen vault 1.
GateInit ==
    /\ couples = <<Row("ann", "bob", "k1"), Row("ann", NoUser, "k2")>>
    /\ \E a \in 1..2 : active_couple = Pointers(a, 1, 0)
    /\ entries = <<>>
    /\ today = [year |-> 2025, day |-> 1]
    /\ req = [r \in Reqs |-> Idle]
    /\ resp = NoResp
    /\ session = [u \in Users |-> [c \in CategoryInputs |->
                        IF u = "ann" /\ c = "date" THEN <<1, 2>> ELSE <<>>]]
    /\ preferences = <<>>
    /\ context = NoContext
    /\ spark_requests = 0
    /\ wrapped = NoWrapped

NextGate ==
    \/ \E u \in Users \ {"cat"}, c \in CategoryInputs, v \in VibeInputs : spark_card(u, c, v)
    \/ \E u \in Users \ {"cat"}, c \in CategoryInputs, v \in VibeInputs : spark_next(u, c, v)
    \/ \E u \in Users \ {"cat"}, c \in CategoryInputs : spark_prev(u, c)
    \/ \E ended \in BOOLEAN : admin_set_ended(1, ended)

SpecGate == GateInit /\ [][NextGate]_vars

\* ------------------------------------------------- joining and settings
\* ann is alone in vault 1, her active vault; bob and cat have no vault.
JoinSettingsInit ==
    /\ couples = <<Row("ann", NoUser, "k1")>>
    /\ active_couple = Pointers(1, 0, 0)
    /\ entries = <<>>
    /\ today = [year |-> 2025, day |-> 1]
    /\ req = [r \in Reqs |-> Idle]
    /\ resp = NoResp
    /\ NoSparks

\* bob redeems the invite code of vault 1 while ann submits the couple
\* settings of the vault.
NextJoinSettings ==
    \/ \E r \in Reqs, code \in Codes : join_vault(r, "bob", code)
    \/ \E r \in Reqs : join_save(r)
    \/ \E r \in Reqs : profile_save(r)
    \/ \E r \in Reqs, u \in Users \ {"cat"}, form \in CoupleForms :
            settings_couple_submit(r, u, form)
    \/ \E r \in Reqs : settings_save(r)

SpecJoinSettings == JoinSettingsInit /\ [][NextJoinSettings]_vars

\* ------------------------------------------------ joining and journaling
\* ann is alone in vault 1, her active vault; bob and cat have no vault.
RevealInit ==
    /\ couples = <<Row("ann", NoUser, "k1")>>
    /\ active_couple = Pointers(1, 0, 0)
    /\ entries = <<>>
    /\ today = [year |-> 2025, day |-> 1]
    /\ req = [r \in Reqs |-> Idle]
    /\ resp = NoResp
    /\ NoSparks

\* bob and cat redeem the invite code of vault 1; the members write todays
\* entry and look at the journal.
NextReveal ==
    \/ \E r \in Reqs, u \in Users \ {"ann"} : join_vault(r, u, "k1")
    \/ \E r \in Reqs : join_save(r)
    \/ \E r \in Reqs : profile_save(r)
    \/ \E r \in Reqs, u \in Users : submit_entry(r, u, <<"w">>)
    \/ \E r \in Reqs : submit_insert(r)
    \/ \E r \in Reqs : submit_lookup(r)
    \/ \E u \in Users : daily_journal(u)
    \/ \E u \in Users : check_partner_status(u)

SpecReveal == RevealInit /\ [][NextReveal]_vars

\* ------------------------------------------------------- annual cycling
\* The calendar moves on to the next day of the year that has a prompt.
NextPromptDay ==
    /\ \E p \in Prompts :
        /\ p.day > today.day
        /\ \A q \in Prompts : q.day > today.day => p.day <= q.day
        /\ today' = [today EXCEPT !.day = p.day]
    /\ UNCHANGED <<page_vars, couples, active_couple, entries, req, resp>>

\* ann and bob, paired in vault 1, start the year 2025 with no entries.
CycleInit ==
    /\ couples = <<Row("ann", "bob", "k1")>>
    /\ active_couple = Pointers(1, 1, 0)
    /\ entries = <<>>
    /\ today = [year |-> 2025, day |-> 1]
    /\ req = [r \in Reqs |-> Idle]
    /\ resp = NoResp
    /\ NoSparks

\* The text ann and bob type into the entry form.
CycleTexts == { <<" ", "w", " ", " ", "w">> }

\* Journal submissions over the prompt days of 2025, and the wrapped page of
\* the current year (the URL without a year).
NextCycle ==
    \/ \E r \in Reqs, u \in Users \ {"cat"}, text \in CycleTexts :
            submit_entry(r, u, text)
    \/ \E r \in Reqs : submit_insert(r)
    \/ \E r \in Reqs : submit_lookup(r)
    \/ wrapped_view("ann", today.year)
    \/ NextPromptDay

SpecCycle == CycleInit /\ [][NextCycle]_vars

\* ------------------------------------------------------ claim vocabulary

\* The vault states of the lifecycle.
IsVault(cid) == cid \in 1..Len(couples)
Solo(cid) == IsVault(cid) /\ couples[cid].user2 = NoUser
Paired(cid) == IsVault(cid) /\ couples[cid].user2 # NoUser /\ ~couples[cid].is_ended
Ended(cid) == IsVault(cid) /\ couples[cid].is_ended

Member(user, cid) ==
    IsVault(cid) /\ user \in {couples[cid].user1, couples[cid].user2}

\* The other member of a vault with two members.
OtherMember(user, cid) ==
    IF couples[cid].user1 = user THEN couples[cid].user2 ELSE couples[cid].user1

HasEntry(user, prompt, cid) ==
    \E e \in 1..Len(entries) :
        /\ entries[e].user = user
        /\ entries[e].prompt = prompt
        /\ entries[e].couple = cid

EntriesOf(user, cid) ==
    {e \in 1..Len(entries) : entries[e].user = user /\ entries[e].couple = cid}

\* The user is a member of their active vault, which has two members.
InTwoMemberVault(user) ==
    /\ Member(user, active_couple[user])
    /\ couples[active_couple[user]].user2 # NoUser

\* The user journals in a PAIRED vault on a day that has a prompt.
CanJournal(user) ==
    /\ InTwoMemberVault(user)
    /\ Paired(active_couple[user])
    /\ get_todays_prompt(today) # NoPrompt

SubmitFailures == {"NotPaired", "VaultReadOnly", "NoPromptToday", "DuplicateSubmission"}

\* --------------------------------------------------------------- claims

\* C1: of two users redeeming the invite code of a SOLO vault concurrently only
\* one sets member2: a redemption never writes member2 of a vault whose member2
\* is already set.
C1_SingleRedemption ==
    [][\A r \in Reqs : join_save(r) => Solo(req[r].cid)]_vars

\* C2: at most one Entry per (user, prompt, vault) triple, in every reachable
\* state of interleaved submissions.
C2_OneEntryPerTriple ==
    \A e, f \in 1..Len(entries) :
        (/\ entries[e].user = entries[f].user
         /\ entries[e].prompt = entries[f].prompt
         /\ entries[e].couple = entries[f].couple) => e = f

\* Two submissions of one user for one prompt and vault have both passed the
\* existing-entry check, and one of them has saved.
C2_Witness ==
    \E r, q \in Reqs :
        /\ r # q
        /\ req[r].op = "submit_entry" /\ req[q].op = "submit_entry"
        /\ req[r].user = req[q].user
        /\ req[r].cid = req[q].cid
        /\ req[r].prompt = req[q].prompt
        /\ req[r].pc = "lookup"
        /\ req[q].pc = "insert"

\* C3: a submission whose save hits the uniqueness constraint ends with the
\* DuplicateSubmission outcome.
C3_RaceIsDuplicate ==
    [][\A r \in Reqs :
        (/\ submit_insert(r)
         /\ ~unique_user_prompt_couple_entry(req[r].user, req[r].prompt, req[r].cid))
        => resp' = Reply("submit_entry", "DuplicateSubmission")]_vars

\* C4: in a PAIRED vault a saved submission answers "unlocked" when the partner
\* has an Entry for the prompt in the vault and "waiting" when not; a later
\* submission of the same user for the same prompt and vault answers
\* DuplicateSubmission and leaves the entries as they are.
C4_SubmitReveal ==
    [][\A r \in Reqs :
        /\ submit_lookup(r) =>
            resp' = Reply("submit_entry",
                IF HasEntry(OtherMember(req[r].user, req[r].cid),
                            req[r].prompt, req[r].cid)
                THEN "unlocked" ELSE "waiting")
        /\ \A u \in Users, text \in InputTexts :
            (/\ submit_entry(r, u, text)
             /\ CanJournal(u)
             /\ HasEntry(u, get_todays_prompt(today), active_couple[u]))
            => /\ resp' = Reply("submit_entry", "DuplicateSubmission")
               /\ UNCHANGED <<entries, req>>]_vars

\* Both members have answered today's prompt and the second was told "unlocked".
C4_Witness ==
    /\ resp = Reply("submit_entry", "unlocked")
    /\ \E u \in Users :
        /\ CanJournal(u)
        /\ HasEntry(u, get_todays_prompt(today), active_couple[u])
        /\ HasEntry(OtherMember(u, active_couple[u]), get_todays_prompt(today),
                    active_couple[u])

\* C5: for a member of a PAIRED vault daily_journal computes "unanswered"
\* exactly when the user has no Entry for the prompt in the vault, "waiting"
\* exactly when the user has one and the partner has none, "unlocked" exactly
\* when both have one.
C5_JournalState ==
    \A u \in Users :
        CanJournal(u) =>
            LET cid == active_couple[u]
                p == get_todays_prompt(today)
                mine == HasEntry(u, p, cid)
                theirs == HasEntry(OtherMember(u, cid), p, cid)
            IN  /\ daily_journal_outcome(u) \in {"unanswered", "waiting", "unlocked"}
                /\ daily_journal_outcome(u) = "unanswered" <=> ~mine
                /\ daily_journal_outcome(u) = "waiting" <=> (mine /\ ~theirs)
                /\ daily_journal_outcome(u) = "unlocked" <=> (mine /\ theirs)

\* daily_journal has shown "waiting" to a member whose partner has not answered.
C5_Witness ==
    /\ resp = Reply("daily_journal", "waiting")
    /\ \E u \in Users :
        /\ CanJournal(u)
        /\ HasEntry(u, get_todays_prompt(today), active_couple[u])
        /\ ~HasEntry(OtherMember(u, active_couple[u]), get_todays_prompt(today),
                     active_couple[u])

\* C6: check_partner_status changes no stored state; it answers "unlocked"
\* exactly when the user is a member of the active, not ended vault and both
\* the user and the partner have an Entry for today's prompt in it, and the
\* empty reply in every other case.
C6_CheckUnlock ==
    [][\A u \in Users :
        check_partner_status(u) =>
            /\ UNCHANGED <<couples, active_couple, entries, today, req>>
            /\ resp'.outcome \in {"unlocked", "empty"}
            /\ resp'.outcome = "unlocked" <=>
                /\ CanJournal(u)
                /\ HasEntry(u, get_todays_prompt(today), active_couple[u])
                /\ HasEntry(OtherMember(u, active_couple[u]),
                            get_todays_prompt(today), active_couple[u])]_vars

\* The poll has answered "unlocked".
C6_Witness ==
    /\ resp = Reply("check_partner_status", "unlocked")
    /\ \E u \in Users :
        /\ CanJournal(u)
        /\ HasEntry(u, get_todays_prompt(today), active_couple[u])
        /\ HasEntry(OtherMember(u, active_couple[u]), get_todays_prompt(today),
                    active_couple[u])

\* C7: while a vault is ENDED, every submit_entry of a member against it
\* answers VaultReadOnly and creates no Entry.
C7_EndedRejectsAll ==
    [][\A u \in Users, r \in Reqs, text \in InputTexts :
        (/\ Member(u, active_couple[u])
         /\ Ended(active_couple[u])
         /\ submit_entry(r, u, text))
        => /\ resp' = Reply("submit_entry", "VaultReadOnly")
           /\ UNCHANGED <<entries, req>>]_vars

\* C7 (amended): while a vault with two members is ENDED, a submit_entry of
\* one of them against it answers VaultReadOnly and creates no Entry;
\* entry_history shows every entry of the member in the vault, each with the
\* partner's entry for the same prompt when there is one, and entry_detail
\* shows each of them.
C7_EndedReadOnly ==
    [][\A u \in Users :
        (InTwoMemberVault(u) /\ Ended(active_couple[u])) =>
            /\ \A r \in Reqs, text \in InputTexts :
                submit_entry(r, u, text) =>
                    /\ resp' = Reply("submit_entry", "VaultReadOnly")
                    /\ UNCHANGED <<entries, req>>
            /\ entry_history(u) =>
                /\ resp' = Reply("entry_history", "history")
                /\ {x.user_entry : x \in entries_with_partner(u)}
                        = EntriesOf(u, active_couple[u])
                /\ \A x \in entries_with_partner(u) :
                    LET partner == OtherMember(u, active_couple[u])
                        prompt == entries[x.user_entry].prompt
                    IN  IF HasEntry(partner, prompt, active_couple[u])
                        THEN /\ x.partner_entry \in EntriesOf(partner, active_couple[u])
                             /\ entries[x.partner_entry].prompt = prompt
                        ELSE x.partner_entry = NoEntry
            /\ \A e \in EntriesOf(u, active_couple[u]) :
                entry_detail(u, e) => resp' = Reply("entry_detail", "detail")]_vars

\* A member of an ENDED vault that holds entries has been refused a submission.
C7_Witness ==
    /\ resp = Reply("submit_entry", "VaultReadOnly")
    /\ \E u \in Users :
        /\ InTwoMemberVault(u)
        /\ Ended(active_couple[u])
        /\ EntriesOf(u, active_couple[u]) # {}

\* C8: a submit_entry that ends without saving answers NotPaired only when
\* the user has no active vault, is not a member of it, or it has no member2;
\* VaultReadOnly only when the vault is ended; NoPromptToday only when today
\* has no prompt; DuplicateSubmission only when the user's Entry exists.
\* Whenever one of these conditions holds the request ends with one of the
\* four outcomes and creates and changes no Entry.
C8_SubmitFailures ==
    [][\A r \in Reqs, u \in Users, text \in InputTexts :
        submit_entry(r, u, text) =>
            LET cid == active_couple[u]
                notPaired == ~InTwoMemberVault(u)
                readOnly == Ended(cid)
                noPrompt == get_todays_prompt(today) = NoPrompt
                duplicate == HasEntry(u, get_todays_prompt(today), cid)
            IN  /\ req' = req =>
                    /\ resp'.op = "submit_entry"
                    /\ resp'.outcome = "NotPaired" => notPaired
                    /\ resp'.outcome = "VaultReadOnly" => readOnly
                    /\ resp'.outcome = "NoPromptToday" => noPrompt
                    /\ resp'.outcome = "DuplicateSubmission" => duplicate
                /\ (notPaired \/ readOnly \/ noPrompt \/ duplicate) =>
                    /\ resp'.op = "submit_entry"
                    /\ resp'.outcome \in SubmitFailures
                    /\ UNCHANGED <<entries, req>>]_vars

\* A member of a PAIRED vault has been told that today has no prompt.
C8_Witness ==
    /\ resp = Reply("submit_entry", "NoPromptToday")
    /\ get_todays_prompt(today) = NoPrompt
    /\ \E u \in Users : InTwoMemberVault(u) /\ Paired(active_couple[u])

\* C9: every vault whose member2 is set has member1 different from member2.
C9_MembersDiffer ==
    \A c \in 1..Len(couples) :
        couples[c].user2 # NoUser => couples[c].user1 # couples[c].user2

\* A vault has two members.
C9_Witness ==
    \E c \in 1..Len(couples) : couples[c].user2 # NoUser

\* C10: join_with_code answers SelfJoin to the creator of a SOLO vault redeeming
\* its code, AlreadyPaired for the code of a vault whose member2 is set,
\* InvalidCode for a code no vault has; in each of these the request ends
\* there, no vault is modified and no active-vault pointer changes.
C10_JoinFailures ==
    [][\A r \in Reqs, u \in Users, code \in Codes :
        join_vault(r, u, code) =>
            LET match == {c \in 1..Len(couples) : couples[c].invite_code = code}
                NoOp == UNCHANGED <<couples, active_couple, req>>
            IN  /\ match = {}
                        => resp' = Reply("join_vault", "InvalidCode") /\ NoOp
                /\ (\E c \in match : couples[c].user2 # NoUser)
                        => resp' = Reply("join_vault", "AlreadyPaired") /\ NoOp
                /\ (\E c \in match : Solo(c) /\ couples[c].user1 = u)
                        => resp' = Reply("join_vault", "SelfJoin") /\ NoOp]_vars

\* The creator of a SOLO vault has been refused its own code.
C10_Witness ==
    /\ resp = Reply("join_vault", "SelfJoin")
    /\ \E c \in 1..Len(couples) : Solo(c)

C12_EndPersists ==
    [][\A r \in Reqs :
        (/\ settings_save(r)
         /\ req[r].couple.is_ended
         /\ Paired(req[r].cid))
        => /\ Ended(req[r].cid)'
           /\ couples'[req[r].cid].reactivation_requested_by = NoUser]_vars

\* C13: a vault whose ended flag is false has a null ended date.
C13_EndedDateOnlyWhenEnded ==
    \A c \in 1..Len(couples) :
        ~couples[c].is_ended => couples[c].ended_date = NoDate

\* C14: request_reactivation changes nothing unless the user's active vault is
\* an ENDED vault of theirs; on an ENDED vault it records the requester as the
\* pending requester and changes nothing else; repeated by the same requester
\* it changes no state and reports "already requested".
C14_RequestReactivation ==
    [][\A u \in Users :
        settings_request_reactivation(u) =>
            LET cid == active_couple[u]
                valid == Member(u, cid) /\ Ended(cid)
            IN  /\ UNCHANGED <<active_couple, entries, today, req>>
                /\ ~valid => /\ UNCHANGED couples
                             /\ resp' = Reply("request_reactivation", "ignored")
                /\ valid => couples' =
                        [couples EXCEPT ![cid].reactivation_requested_by = u]
                /\ (valid /\ couples[cid].reactivation_requested_by = u) =>
                        /\ UNCHANGED couples
                        /\ resp' = Reply("request_reactivation", "already_requested")
                /\ (valid /\ couples[cid].reactivation_requested_by # u) =>
                        resp' = Reply("request_reactivation", "requested")]_vars

\* The requester of the pending reactivation has asked again.
C14_Witness ==
    /\ resp = Reply("request_reactivation", "already_requested")
    /\ \E c \in 1..Len(couples) :
        Ended(c) /\ couples[c].reactivation_requested_by # NoUser

\* C15: the reactivation marker of a vault is null or one of its two members.
C15_MarkerIsMember ==
    \A c \in 1..Len(couples) :
        couples[c].reactivation_requested_by
            \in {NoUser, couples[c].user1, couples[c].user2}

\* A reactivation is pending in a vault that is the active vault of a user
\* who is not a member of it.
C15_Witness ==
    \E c \in 1..Len(couples), u \in Users :
        /\ couples[c].reactivation_requested_by # NoUser
        /\ active_couple[u] = c
        /\ ~Member(u, c)

C17_InviteCodes ==
    [][/\ \A c, d \in 1..Len(couples') :
            couples'[c].invite_code = couples'[d].invite_code => c = d
       /\ \A c \in 1..Len(couples') : couples'[c].invite_code # ""
       /\ \A c \in 1..Len(couples) :
            couples'[c].invite_code = couples[c].invite_code]_vars

\* Two vaults exist and a create_vault that drew a code in use was rejected.
C17_Witness ==
    /\ Len(couples) = 2
    /\ couples[1].invite_code # couples[2].invite_code
    /\ resp = Reply("create_vault", "ServerError")

\* C18: get_partner returns member2 for member1, member1 for member2 and none
\* for any other user; in a PAIRED vault the partner of the partner of a
\* member is the member.
C18_GetPartner ==
    \A c \in 1..Len(couples), u \in Users :
        /\ u = couples[c].user1 => get_partner(couples[c], u) = couples[c].user2
        /\ u = couples[c].user2 => get_partner(couples[c], u) = couples[c].user1
        /\ ~Member(u, c) => get_partner(couples[c], u) = NoUser
        /\ (Paired(c) /\ Member(u, c)) =>
                get_partner(couples[c], get_partner(couples[c], u)) = u

\* A PAIRED vault with a user outside it.
C18_Witness ==
    \E c \in 1..Len(couples), u \in Users : Paired(c) /\ ~Member(u, c)

\* The prompts whose active_date has the month and day of today.
PromptsOfToday == {p \in Prompts : p.day = today.day}

\* C19: get_todays_prompt returns a Prompt whose active_date has the month and
\* day of today, whatever the years of active_date and of today, and none
\* exactly when no Prompt has today's month and day.
C19_YearIndependent ==
    /\ PromptsOfToday = {} <=> get_todays_prompt(today) = NoPrompt
    /\ PromptsOfToday # {} =>
            \E p \in PromptsOfToday : p.id = get_todays_prompt(today)

\* The journal has shown a prompt in a year later than the year of every
\* prompt of that day.
C19_Witness ==
    /\ resp.op = "daily_journal"
    /\ resp.outcome \in {"unanswered", "waiting", "unlocked"}
    /\ PromptsOfToday # {}
    /\ \A p \in PromptsOfToday : p.year < today.year

\* C20: when several Prompts share today's month and day, get_todays_prompt
\* returns the one with the earliest active_date.
C20_EarliestDate ==
    PromptsOfToday # {} =>
        \E p \in PromptsOfToday :
            /\ p.id = get_todays_prompt(today)
            /\ \A q \in PromptsOfToday : q # p => p.year < q.year

\* The journal has shown the prompt of a day that two prompts share.
C20_Witness ==
    /\ resp.op = "daily_journal"
    /\ resp.outcome \in {"unanswered", "waiting", "unlocked"}
    /\ Cardinality(PromptsOfToday) > 1


\* The calendar date in a timezone at the instant the requests are served,
\* noon UTC of today: Pacific/Kiritimati (UTC+14) is in the next day already.
LocalDate(tz) ==
    IF tz = "Pacific/Kiritimati" THEN [today EXCEPT !.day = @ + 1] ELSE today

\* C21: get_todays_prompt(timezone) matches prompts against the calendar date
\* in the given timezone: where that date differs from the UTC date, the prompt
\* returned is the one of the local date.
C21_LocalDate ==
    \A tz \in Timezones :
        get_todays_prompt_in(tz) = get_todays_prompt(LocalDate(tz))


\* The user has archived the Spark.
Archived(user, id) ==
    \E i \in preferences_of(user, id) : preferences[i].is_archived

\* The Sparks of a category and, when one is asked for, a vibe.
Candidates(category, vibe) ==
    {s \in Sparks : s.category = category /\ (vibe # NoVibe => s.vibe = vibe)}

\* C22: spark_card and spark_next never show a Spark that the requesting user
\* has archived, provided a Spark of the category and vibe is not archived by
\* that user.
C22_NeverArchived ==
    /\ resp.op \in {"spark_card", "spark_next"}
    /\ resp.outcome = "card"
    /\ \E s \in Candidates(context.category, context.vibe) :
            ~Archived(context.user, s.id)
    => ~Archived(context.user, context.spark)

\* C23: whenever the category and vibe have a Spark, the card that spark_card
\* and spark_next show is a Spark of that category and vibe, not none, also
\* when the user has archived or was lately shown every one of them.
C23_NeverNone ==
    /\ resp.op \in {"spark_card", "spark_next"}
    /\ resp.outcome = "card"
    /\ Candidates(context.category, context.vibe) # {}
    => context.spark \in {s.id : s \in Candidates(context.category, context.vibe)}

\* spark_next has shown a user the only conversation starter, which that user
\* has archived.
C23_Witness ==
    /\ resp = Reply("spark_next", "card")
    /\ context.category = "convo"
    /\ Cardinality(Candidates("convo", context.vibe)) = 1
    /\ context.is_archived


\* C24: the history a session stores for a category never holds more than 20
\* ids, and when spark_card or spark_next append an id to a history of 20 the
\* oldest id is the one dropped.
C24_HistoryCap ==
    /\ \A u \in Users, c \in CategoryInputs : Len(session[u][c]) <= HistoryCap
    /\ [][\A u \in Users, c \in CategoryInputs :
            /\ Len(session'[u][c]) <= HistoryCap
            /\ ( /\ Len(session[u][c]) = HistoryCap
                 /\ resp'.op \in {"spark_card", "spark_next"}
                 /\ session'[u][c] # session[u][c] )
               => /\ context'.spark \notin ids_of(session[u][c])
                  /\ session'[u][c] = Append(Tail(session[u][c]), context'.spark)]_vars

\* A card was shown on top of a full history, whose oldest id is gone.
C24_Witness ==
    /\ resp.op \in {"spark_card", "spark_next"}
    /\ context.spark = HistoryCap + 1
    /\ session["ann"]["date"] = [i \in 1..HistoryCap |-> i + 1]


\* The histories other than the one of the user and category are as before.
OtherHistoriesKept(user, category) ==
    \A u \in Users, c \in CategoryInputs :
        (u # user \/ c # category) => session'[u][c] = session[u][c]

\* The sequence without its last element.
Front(seq) == SubSeq(seq, 1, Len(seq) - 1)

\* C25 as stated: spark_prev with a history of fewer than 2 ids leaves the
\* history unchanged and answers "no previous card"; with 2 ids or more it
\* removes exactly the most recent id and shows the Spark whose id is then
\* last in the history.
C25_PrevPopsOne ==
    [][\A u \in Users, c \in CategoryInputs :
        /\ resp'.op = "spark_prev"
        /\ spark_gate(u) = "ok"
        /\ spark_prev(u, c)
        => IF Len(session[u][c]) < 2
           THEN /\ session' = session
                /\ resp' = Reply("spark_prev", "no_previous")
           ELSE /\ session'[u][c] = Front(session[u][c])
                /\ context'.spark = session'[u][c][Len(session'[u][c])]
                /\ OtherHistoriesKept(u, c)]_vars

\* C25, amended: with 2 ids or more spark_prev removes the most recent id and,
\* when the id then last is the id of a Spark that exists, shows that Spark;
\* when that Spark was deleted, it removes that id as well and shows no Spark.
C25_PrevPops ==
    [][\A u \in Users, c \in CategoryInputs :
        /\ resp'.op = "spark_prev"
        /\ spark_gate(u) = "ok"
        /\ spark_prev(u, c)
        => LET history == session[u][c]
               popped == Front(history)
           IN  IF Len(history) < 2
               THEN /\ session' = session
                    /\ resp' = Reply("spark_prev", "no_previous")
               ELSE /\ resp' = Reply("spark_prev", "card")
                    /\ OtherHistoriesKept(u, c)
                    /\ IF \E s \in Sparks : s.id = popped[Len(popped)]
                       THEN /\ session'[u][c] = popped
                            /\ context'.spark = popped[Len(popped)]
                       ELSE /\ session'[u][c] = Front(popped)
                            /\ context'.spark = NoSpark]_vars

\* spark_prev has shown the card before the one it removed from a history the
\* session started with.
C25_Witness ==
    /\ resp = Reply("spark_prev", "card")
    /\ context.spark # NoSpark
    /\ \E h \in SparkHistories :
        /\ Len(h) >= 2
        /\ session[context.user][context.category] = Front(h)
        /\ context.spark = h[Len(h) - 1]


\* The archived flags of the rows a table holds for a user and a Spark.
FlagsIn(table, user, id) ==
    {table[i].is_archived :
        i \in {j \in 1..Len(table) : table[j].user = user /\ table[j].spark = id}}

\* C26: archive and unarchive are idempotent upserts: there is at most one
\* SparkPreference per user and Spark, after a call its archived flag is the
\* kind of the call, a call that repeats the last one changes nothing, and
\* the preferences of other users and for other Sparks stay as they are.
C26_IdempotentUpsert ==
    [][\A u \in Users, id \in ArchiveInputs, kind \in BOOLEAN :
        /\ resp' = IF kind THEN Reply("spark_archive", "archived")
                   ELSE Reply("spark_unarchive", "unarchived")
        /\ IF kind THEN spark_archive(u, id) ELSE spark_unarchive(u, id)
        => /\ \A w \in Users, j \in ArchiveInputs :
                Cardinality(preferences_of(w, j)') <= 1
           /\ FlagsIn(preferences', u, id) = {kind}
           /\ FlagsIn(preferences, u, id) = {kind} => preferences' = preferences
           /\ \A w \in Users, j \in ArchiveInputs :
                (w # u \/ j # id) =>
                    FlagsIn(preferences', w, j) = FlagsIn(preferences, w, j)]_vars

\* A Spark that was archived is unarchived: its one preference says so.
C26_Witness ==
    /\ resp = Reply("spark_unarchive", "unarchived")
    /\ spark_requests >= 2
    /\ Len(preferences) = 1
    /\ ~preferences[1].is_archived


\* The prompts a user has answered in a vault in a year.
Answered(user, cid, year) ==
    {p \in {q.id : q \in Prompts} :
        \E e \in 1..Len(entries) :
            /\ entries[e].user = user /\ entries[e].prompt = p
            /\ entries[e].couple = cid /\ entries[e].created_at = year}

\* The prompts both members of a vault have answered in it in a year.
AnsweredByBoth(cid, year) ==
    Answered(couples[cid].user1, cid, year) \cap Answered(couples[cid].user2, cid, year)

\* The entry is the answer of the user to the prompt in the vault and year.
IsAnswer(e, user, p, cid, year) ==
    /\ e \in 1..Len(entries)
    /\ entries[e].user = user /\ entries[e].prompt = p
    /\ entries[e].couple = cid /\ entries[e].created_at = year

\* C27: for every vault and year get_paired_entries returns exactly one
\* (prompt, entry1, entry2) for each prompt both members answered in that vault
\* and year and none for another prompt; entry1 is the answer of member1 and
\* entry2 the answer of member2.
C27_PairedIsIntersection ==
    \A cid \in 1..Len(couples), year \in WrappedYears :
        LET paired == get_paired_entries(cid, year)
        IN  /\ {t.prompt : t \in paired} = AnsweredByBoth(cid, year)
            /\ Cardinality(paired) = Cardinality(AnsweredByBoth(cid, year))
            /\ \A t \in paired :
                /\ IsAnswer(t.entry1, couples[cid].user1, t.prompt, cid, year)
                /\ IsAnswer(t.entry2, couples[cid].user2, t.prompt, cid, year)

\* The wrapped page of vault 1 for 2024 was rendered when ann had answered a
\* prompt there that bob had not, and both had answered another.
C27_Witness ==
    /\ resp = Reply("wrapped_view", "wrapped")
    /\ wrapped = generate_wrapped_data(1, 2024)
    /\ AnsweredByBoth(1, 2024) # {}
    /\ Answered("ann", 1, 2024) # AnsweredByBoth(1, 2024)


\* The row is an entry of the vault created in the year.
InScope(row, cid, year) == row.couple = cid /\ row.created_at = year

\* The step leaves the entries of the vault and year as they are.
ScopeKept(cid, year) ==
    /\ \A e \in 1..Len(entries) :
            InScope(entries[e], cid, year) \/ InScope(entries'[e], cid, year)
                => entries'[e] = entries[e]
    /\ \A e \in (Len(entries) + 1)..Len(entries') :
            ~InScope(entries'[e], cid, year)

\* C28: the wrapped data of a vault and year depend only on the entries of
\* that vault created in that year: a step that adds, changes or removes
\* entries of another vault or of another year changes no field of
\* generate_wrapped_data.
C28_OnlyVaultAndYear ==
    [][\A cid \in 1..Len(couples), year \in WrappedYears :
        entries' # entries /\ ScopeKept(cid, year)
        => generate_wrapped_data(cid, year)' = generate_wrapped_data(cid, year)]_vars

\* The wrapped page of vault 1 for 2024, with entries in it, was rendered
\* after staff added an entry in another year or vault.
C28_Witness ==
    /\ resp = Reply("wrapped_view", "wrapped")
    /\ wrapped = generate_wrapped_data(1, 2024)
    /\ wrapped.total_words > 0
    /\ \E e \in 1..Len(entries) :
        /\ entries[e].text_content = <<"w">>
        /\ entries[e].created_at # 2024
        /\ entries[e].user \in {"ann", "bob"}


\* The score of the answer of a user to a prompt in a vault and year.
ScoreOf(user, p, cid, year) ==
    entries[CHOOSE e \in 1..Len(entries) : IsAnswer(e, user, p, cid, year)].sentiment_score

\* The prompts both members answered with a score on both sides.
ScoredByBoth(cid, year) ==
    {p \in AnsweredByBoth(cid, year) :
        /\ ScoreOf(couples[cid].user1, p, cid, year) # NoScore
        /\ ScoreOf(couples[cid].user2, p, cid, year) # NoScore}

\* |s1 - s2| of a prompt both members answered, in tenths.
ScoreGap(p, cid, year) ==
    abs(ScoreOf(couples[cid].user1, p, cid, year)
        - ScoreOf(couples[cid].user2, p, cid, year))

\* C29: sentiment_sync_score is none when no pair is scored on both sides;
\* otherwise it is 1 - (mean of |s1 - s2| over the pairs scored on both
\* sides) / 2 rounded to 3 decimals, the other pairs being ignored, and lies
\* in [0, 1]: scores (0.5, 0.5) give 1.0, (1.0, -1.0) give 0.0 and
\* (0.2, -0.3) give 0.75.
C29_SyncScore ==
    \A cid \in 1..Len(couples), year \in WrappedYears :
        LET scored == ScoredByBoth(cid, year)
            n == Cardinality(scored)
            total_gap == sum_over([p \in scored |-> ScoreGap(p, cid, year)], scored)
            sync == sentiment_sync_score(cid, year)
        IN  /\ n = 0 <=> sync = NoScore
            /\ n > 0 =>
                /\ 2 * abs(n * sync - (1000 * n - 50 * total_gap)) <= n
                /\ sync \in 0..1000
                /\ (n = 1 /\ total_gap = 0) => sync = 1000
                /\ (n = 1 /\ total_gap = 20) => sync = 0
                /\ (n = 1 /\ total_gap = 5) => sync = 750

\* The wrapped page of vault 1 for 2024 shows a sync score computed with a
\* pair left out for a missing score.
C29_Witness ==
    /\ resp = Reply("wrapped_view", "wrapped")
    /\ wrapped = generate_wrapped_data(1, 2024)
    /\ wrapped.sync_score # NoScore
    /\ ScoredByBoth(1, 2024) # AnsweredByBoth(1, 2024)
    /\ \E p \in ScoredByBoth(1, 2024) : ScoreGap(p, 1, 2024) = 5

\* C30: response_rate is the number of prompts both members answered in the
\* vault and year divided by the number of Prompts whose active_date is in
\* that year, rounded to 3 decimals, and 0.0 when no Prompt has its
\* active_date in that year.
C30_ResponseRate ==
    \A cid \in 1..Len(couples), year \in WrappedYears :
        LET total == Cardinality({p \in Prompts : p.year = year})
            both == Cardinality(AnsweredByBoth(cid, year))
            rate == response_rate(cid, year)
        IN  /\ total = 0 => rate = 0
            /\ total > 0 => 2 * abs(total * rate - 1000 * both) <= total

\* The wrapped page of vault 1 for 2024 shows a response rate that had to be
\* rounded up: the members answered two of the three prompts of 2024.
C30_Witness ==
    /\ resp = Reply("wrapped_view", "wrapped")
    /\ wrapped = generate_wrapped_data(1, 2024)
    /\ Cardinality(AnsweredByBoth(1, 2024)) = 2
    /\ Cardinality({p \in Prompts : p.year = 2024}) = 3
    /\ wrapped.response_rate * 3 > 2000

\* C31: for every vault, year and reachable set of entries and prompts, with
\* entries written in one year for cycling prompts dated in another year, the
\* response_rate of the wrapped data is between 0 and 1 (0 to 1000
\* thousandths).
C31_RateInUnit ==
    wrapped # NoWrapped =>
        /\ wrapped.response_rate >= 0
        /\ wrapped.response_rate <= 1000

\* The thresholds shared_joy_moments is called with, in tenths: the default
\* 0.3, and 0.0 and -1.0.
JoyThresholds == {3, 0, -10}

\* The prompts of a list of triples.
PromptsIn(list) == {list[i].prompt : i \in 1..Len(list)}

\* The list has each prompt once, the greatest sum of the two scores first.
JoyOrdered(list) ==
    /\ Cardinality(PromptsIn(list)) = Len(list)
    /\ \A i, j \in 1..Len(list) :
            i < j => combined_joy(list[i]) >= combined_joy(list[j])

\* C32 as stated: shared_joy_moments returns exactly the paired entries in
\* which both members have a sentiment score and it is at least the
\* threshold, ordered by the sum of the two scores from highest to lowest.
C32_JoyMomentsScored ==
    \A cid \in 1..Len(couples), year \in WrappedYears, th \in JoyThresholds :
        LET joy == shared_joy_moments(cid, year, th)
        IN  /\ PromptsIn(joy) =
                    {p \in ScoredByBoth(cid, year) :
                        /\ ScoreOf(couples[cid].user1, p, cid, year) >= th
                        /\ ScoreOf(couples[cid].user2, p, cid, year) >= th}
            /\ JoyOrdered(joy)

\* The score of a member for a prompt, a missing score read as 0.
ScoreOr0(user, p, cid, year) ==
    IF ScoreOf(user, p, cid, year) = NoScore THEN 0
    ELSE ScoreOf(user, p, cid, year)

\* C32 amended: shared_joy_moments returns exactly the paired entries in
\* which both members' sentiment scores, a missing score counting as 0, are
\* at least the threshold, ordered by the sum of the two scores from highest
\* to lowest; entry1 is member1's entry and entry2 member2's.
C32_JoyMoments ==
    \A cid \in 1..Len(couples), year \in WrappedYears, th \in JoyThresholds :
        LET joy == shared_joy_moments(cid, year, th)
        IN  /\ PromptsIn(joy) =
                    {p \in AnsweredByBoth(cid, year) :
                        /\ ScoreOr0(couples[cid].user1, p, cid, year) >= th
                        /\ ScoreOr0(couples[cid].user2, p, cid, year) >= th}
            /\ JoyOrdered(joy)
            /\ \A i \in 1..Len(joy) :
                    /\ IsAnswer(joy[i].entry1, couples[cid].user1, joy[i].prompt, cid, year)
                    /\ IsAnswer(joy[i].entry2, couples[cid].user2, joy[i].prompt, cid, year)

\* The wrapped page of vault 1 for 2024 shows one shared joy moment, for
\* prompt 3, and at the threshold -1.0 the list has three pairs which are not
\* in the order of their prompts.
C32_Witness ==
    /\ resp = Reply("wrapped_view", "wrapped")
    /\ wrapped = generate_wrapped_data(1, 2024)
    /\ wrapped.shared_joy_count = 1
    /\ wrapped.top_joy_moment = 3
    /\ LET joy == shared_joy_moments(1, 2024, -10)
       IN  /\ Len(joy) = 3
           /\ \E i \in 1..2 : joy[i].prompt > joy[i + 1].prompt

\* The values the wrapped data has with nothing to report: none, 0, 0.0 or
\* an empty list.
EmptyDefaults(data) ==
    /\ data.couple_sentiment = [sum |-> NoScore, count |-> 0]
    /\ data.sync_score = NoScore
    /\ data.shared_joy_count = 0
    /\ data.top_joy_moment = NoPrompt
    /\ data.tough_days_count = 0
    /\ data.support_moments = 0
    /\ data.total_words = 0
    /\ data.response_rate = 0
    /\ \A p \in DOMAIN data.top_vibes : data.top_vibes[p] = 0
    /\ data.most_words_prompt = NoPrompt

\* C33: no analytics operation raises on empty or partial input: for a vault
\* with no entries in the year and for a vault whose member2 is null,
\* generate_wrapped_data returns the empty defaults instead of failing.
C33_NeverRaises ==
    \A cid \in 1..Len(couples), year \in WrappedYears :
        (resp.op = "generate_wrapped_data" /\ wrapped = generate_wrapped_data(cid, year)) =>
            /\ resp.outcome = "returned"
            /\ (entries_of_year(cid, year) = {} \/ couples[cid].user2 = NoUser) =>
                    EmptyDefaults(wrapped)

RECURSIVE SkipToken(_)
\* The text after its leading run of characters that are not spaces.
SkipToken(text) ==
    IF text = <<>> \/ Head(text) = " " THEN text ELSE SkipToken(Tail(text))

RECURSIVE TokenCount(_)
\* The number of whitespace-separated tokens of a text.
TokenCount(text) ==
    IF text = <<>> THEN 0
    ELSE IF Head(text) = " " THEN TokenCount(Tail(text))
    ELSE 1 + TokenCount(SkipToken(text))

\* C34: after every save of an Entry, creation or update, its word_count is
\* the number of whitespace-separated tokens of its text_content: 0 for the
\* empty string, runs of several spaces counting as one separator.
C34_WordCount ==
    \A e \in 1..Len(entries) :
        /\ entries[e].word_count = TokenCount(entries[e].text_content)
        /\ entries[e].text_content = <<>> => entries[e].word_count = 0
        /\ entries[e].text_content = <<" ", "w", " ", " ", "w">> =>
                entries[e].word_count = 2

\* An entry created by the form was saved again with the empty text, and
\* another one with the text that has two spaces in a row.
C34_Witness ==
    /\ Len(entries) = 2
    /\ entries[1].text_content = <<>>
    /\ entries[2].text_content = <<" ", "w", " ", " ", "w">>

\* The views that show a spark card.
CardViews == {"spark_card", "spark_next", "spark_prev"}

\* C35: while the active vault of the user is ended or has no member2,
\* spark_card, spark_next and spark_prev return no Spark and leave the spark
\* history of the session unchanged.  A card view that returns a Spark or
\* changes a history has served a user whose active vault is paired and
\* not ended, and changed the histories of that user only.
C35_GatedSparks ==
    [][ ( /\ spark_requests' # spark_requests
          /\ resp'.op \in CardViews
          /\ (context'.spark # NoSpark \/ session' # session) )
        => /\ context'.user \in Users
           /\ spark_gate(context'.user) = "ok"
           /\ Paired(active_couple[context'.user])
           /\ \A u \in Users \ {context'.user} : session'[u] = session[u] ]_vars

\* ann, whose active vault has no member2 and whose other vault is ended,
\* asked for the previous card: she got none and her history of two cards is
\* whole.
C35_Witness ==
    /\ resp = Reply("spark_prev", "NotPaired")
    /\ Solo(active_couple["ann"])
    /\ Ended(1)
    /\ context.spark = NoSpark
    /\ session["ann"]["date"] = <<1, 2>>

\* C36: once a vault is paired, its member2 is never cleared or replaced by a
\* later operation, a whole-row save of the vault that interleaves with the
\* join_with_code that paired it included.
C36_Member2Kept ==
    [][ \A cid \in 1..Len(couples) :
            couples[cid].user2 # NoUser =>
                couples'[cid].user2 = couples[cid].user2 ]_vars

\* C37: a couple-settings submission on a vault that is already ended changes
\* only the anniversary date and the ended date: the stored ended flag stays
\* true whatever the form holds, a form without the ended checkbox included.
\* The view, called on an ended vault, goes on to the save of the two dates,
\* and that save changes no other column.
C37_EndedStaysEnded ==
    [][ \A r \in Reqs :
            /\ ( /\ req[r] = Idle
                 /\ req'[r].op = "couple_submit"
                 /\ Ended(req'[r].cid) )
               => req'[r].pc = "save_dates"
            /\ ( /\ req[r].op = "couple_submit"
                 /\ req[r].pc = "save_dates"
                 /\ req'[r] = Idle )
               => couples'[req[r].cid] =
                    [couples[req[r].cid] EXCEPT
                        !.ended_date = couples'[req[r].cid].ended_date] ]_vars

\* The reveal state of a (vault, user, prompt) triple, as the journal views
\* work it out from the entries of the user and of the partner.
RevealState(cid, user, p) ==
    journal_state(get_user_entry_for_prompt(user, p, cid),
                  get_partner_entry_for_prompt(user, p, cid, couples[cid]))

RevealRank(state) ==
    IF state = "unanswered" THEN 0 ELSE IF state = "waiting" THEN 1 ELSE 2

\* C38: the reveal state of a (vault, user, prompt) triple only moves forward
\* under the core operations, never from waiting or unlocked back to
\* unanswered nor from unlocked back to waiting; and when it is unlocked for
\* one member it is unlocked for the other member, for the same prompt and
\* vault.
C38_RevealForward ==
    /\ [][ \A cid \in 1..Len(couples), u \in Users, p \in {q.id : q \in Prompts} :
                Member(u, cid) =>
                    RevealRank(RevealState(cid, u, p)') >=
                    RevealRank(RevealState(cid, u, p)) ]_vars
    /\ [](\A cid \in 1..Len(couples), u \in Users, p \in {q.id : q \in Prompts} :
                (Member(u, cid) /\ RevealState(cid, u, p) = "unlocked") =>
                    RevealState(cid, OtherMember(u, cid), p) = "unlocked")

\* C39: after any sequence of create_vault, join_vault and select_vault
\* requests the active-vault pointer of each user is null or refers to a vault
\* that has the user as member1 or member2; select_vault with the id of a
\* vault that does not exist or does not include the user is denied and
\* leaves the pointer unchanged.
C39_ActivePointer ==
    /\ [](\A u \in Users :
            active_couple[u] = NoCouple \/ Member(u, active_couple[u]))
    /\ [][ \A r \in Reqs, u \in Users, cid \in 1..(Len(couples) + 1) :
              (select_vault(r, u, cid) /\ ~Member(u, cid))
              => /\ resp' = Reply("select_vault", "denied")
                 /\ active_couple' = active_couple ]_vars

\* C40: whenever spark_card or spark_next returns a Spark, the id of that
\* Spark is the last element of the session history of the category, so that
\* a following spark_prev removes the card shown and displays the one shown
\* before it.
C40_ShownIsLast ==
    (resp.op \in {"spark_card", "spark_next"} /\ context.spark # NoSpark) =>
        LET history == session[context.user][context.category]
        IN  /\ history # <<>>
            /\ history[Len(history)] = context.spark

====
